---- MODULE Spec2Model ----
(***************************************************************************)
(* A model of QueueManager (src/server/queue.ts): the in-memory job queue  *)
(* that admits jobs up to maxQueueSize, runs at most maxConcurrent of them *)
(* at a time, races each attempt against a timer and retries failures     *)
(* after a backoff sleep.                                                  *)
(*                                                                         *)
(* JavaScript runs one task at a time, so every action below is one turn   *)
(* of the event loop: a call of enqueue, or the continuation of one        *)
(* executeJob after its await (the processor settled, the attempt's timer  *)
(* fired, the backoff sleep ended).  processNext holds no await: a call of *)
(* it runs its whole loop inside the turn that called it, together with    *)
(* the synchronous head of every executeJob it starts.                     *)
(*                                                                         *)
(* The environment: callers call enqueue at any time; a processor call     *)
(* returns a promise that fulfils, rejects or never settles; listeners     *)
(* return normally, as the logging listeners of getImageProcessingQueue    *)
(* do.                                                                     *)
(***************************************************************************)
EXTENDS Integers, Sequences, FiniteSets, TLC

(* ------------------------------------------------------------------ *)
(* Bounds of the model                                                *)
(* ------------------------------------------------------------------ *)

\* jobs admitted in one behaviour (caps jobCounter)
MaxJobs == 3

\* the configurations explored: Partial<QueueConfig> passed to the constructor
ConcurrentChoices == {1, 2}
QueueSizeChoices == {1, 2}
AttemptChoices == {0, 1, 2}

\* retryDelay of the configuration (milliseconds are scaled to units)
RetryDelayChoices == {1}

\* jobs submitted to the queue whose retries are explored in depth
RetryJobs == 2

\* jobs submitted to a queue whose listeners call enqueue themselves
ReentrantJobs == 3

\* image.process requests that pass validation in one behaviour
ImageRequests == 2

\* the length of the strings tried as aspect ratios
MaxRatioLen == 4

\* jobs submitted back to back in a burst
BurstJobs == 5

(* ------------------------------------------------------------------ *)
(* Error messages: texts as sequences of characters                    *)
(* ------------------------------------------------------------------ *)

\* substring test of String.prototype.includes
Includes(msg, pat) ==
    \E i \in 0..(Len(msg) - Len(pat)) :
        \A k \in 1..Len(pat) : msg[i + k] = pat[k]

\* the message of the error withTimeout rejects with (a Japanese text,
\* "processing timed out"; it holds none of "429", "rate", "limit")
TimeoutMessage == <<"t", "i", "m", "e", "d", " ", "o", "u", "t">>

\* job.error when no error message was captured ("unknown error")
UnknownErrorMessage == <<"u", "n", "k", "n", "o", "w", "n">>

\* the message of the error job.reject gets when lastError is null
\* ("processing failed")
ProcessingFailedMessage == <<"f", "a", "i", "l", "e", "d">>

\* the message enqueue throws when the queue is full
QueueFullMessage == <<"f", "u", "l", "l">>

\* the message a processor rejects with
ProcessorMessages == { <<"E", "5", "0", "0">> }

\* the message of the error a throwing listener throws
ListenerMessage == <<"b", "o", "o", "m">>

\* the four events the queue emits
EventKinds == {"jobAdded", "jobStarted", "jobCompleted", "jobFailed"}

\* lastError === null; also: no exception is propagating.  (A message is a
\* sequence of characters, so it is never this value.)
NoError == <<"null">>

\* job.result before success
NoResult == [none |-> TRUE]

VARIABLES
    config,        \* this.config, fixed by the constructor
    queue,         \* this.queue: the Wait List, a sequence of job ids
    processing,    \* this.processing: the keys of the Active Set map
    jobs,          \* every QueueJob ever created, by the counter part of its id
    jobCounter,    \* this.jobCounter
    isProcessing,  \* this.isProcessing
    started,       \* job ids in the order processNext dispatched them
    abandoned,     \* processor calls still in flight whose attempt timed out
    lateTimers,    \* timers of withTimeout still set whose attempt the
                   \* processor decided
    throwers,      \* the events that have a registered listener that throws
    enqueuers,     \* the events that have a registered listener that calls
                   \* enqueue
    app,           \* the server around the queue: the clock, the processing
                   \* records of security.ts, the image job rows of the
                   \* database and the image.process requests under way
    ret            \* the last turn: a call of enqueue and its outcome, or a
                   \* continuation of executeJob

vars == <<config, queue, processing, jobs, jobCounter, isProcessing, started,
          abandoned, lateTimers, throwers, enqueuers, app, ret>>

\* the part of the state the queue's methods work on, the exception
\* propagating through the running code (none when a turn begins) and the
\* dispatch passes of processNext on the call stack (none when a turn
\* begins)
Q == [config |-> config, queue |-> queue, processing |-> processing,
      jobs |-> jobs, jobCounter |-> jobCounter,
      isProcessing |-> isProcessing, started |-> started,
      abandoned |-> abandoned, lateTimers |-> lateTimers,
      throwers |-> throwers, enqueuers |-> enqueuers, app |-> app,
      thrown |-> NoError, depth |-> 0]

(* ------------------------------------------------------------------ *)
(* Job records                                                        *)
(* ------------------------------------------------------------------ *)

\* JobId without the counter: "job-" and the time alone
JobIdOfTimeOnly(time, counter) == [time |-> time, counter |-> 0]

\* the template `job-${Date.now()}-${++this.jobCounter}`, as its two
\* numbers: two such strings are equal when both numbers are
JobId(time, counter) == [time |-> time, counter |-> counter]

\* the job object enqueue builds, with the bookkeeping of its executeJob
\* call (pc, attempt, lastError) and of its promise (channel, settles)
NewJob(pos, jobId) ==
    [ id        |-> jobId,
      status    |-> "queued",
      position  |-> pos,
      result    |-> NoResult,
      error     |-> NoError,
      pc        |-> "unstarted",   \* where executeJob stands
      attempt   |-> 0,             \* executeJob's loop variable
      lastError |-> NoError,       \* executeJob's lastError
      invoked   |-> <<>>,          \* attempt numbers passed to the processor
      ran       |-> <<>>,          \* the processor each of them was passed to
      sleeps    |-> <<>>,          \* the sleeps: the failure before, the delay
      channel   |-> "pending",     \* the promise enqueue returned
      settles   |-> 0,             \* calls of job.resolve / job.reject
      settledWith |-> NoResult,    \* the value or error message it settled with
      events    |-> <<>> ]         \* events emitted about this job

\* the 1-based index of id in sequence q
IndexOf(q, id) == CHOOSE i \in 1..Len(q) : q[i] = id

InQueue(q, id) == \E i \in 1..Len(q) : q[i] = id

\* what a reader of the Wait List checks: the i-th job has position i
Ranked(s) == \A i \in 1..Len(s.queue) : s.jobs[s.queue[i]].position = i

\* Statement sequencing: the state after Step ran in state s; Step does
\* not run while an exception propagates.  (s is evaluated once and Step
\* works on its value.)
Do(s, Step(_)) ==
    CHOOSE r \in {IF a.thrown = NoError THEN Step(a) ELSE a : a \in {s}} : TRUE

\* A catch: Handler runs if s has an exception propagating.
Catch(s, Handler(_)) ==
    CHOOSE r \in {IF a.thrown = NoError THEN a ELSE Handler(a) : a \in {s}} :
        TRUE

\* the end of an async function that nobody awaits: what it threw goes
\* into the promise it returned, which is dropped
Dropped(s) == [s EXCEPT !.thrown = NoError]

RECURSIVE EnqueueCall(_)

\* a listener of the event kind that submits a job of its own: it calls
\* enqueue, in the turn and on the stack of the emit that called it, and
\* handles the promise it gets
ListenerEnqueues(s, kind) ==
    IF kind \in s.enqueuers /\ s.jobCounter < ReentrantJobs
    THEN EnqueueCall(s).state
    ELSE s

\* EventEmitter.emit: the event is recorded with what a listener finds
\* when it reads the positions then, with the number of processor calls
\* made for the job so far, with what was done for the job by then (its
\* status, whether it holds a slot, whether its promise was settled) and
\* with the dispatch passes running; emit calls the listeners in the
\* caller's turn, so what a listener throws comes out of emit
Emit(s, id, kind, payload) ==
    LET Listen(a) == ListenerEnqueues(a, kind)
    IN  Do([s EXCEPT !.jobs[id].events =
                         Append(@, [kind |-> kind, payload |-> payload,
                                    ranked |-> Ranked(s),
                                    calls |-> Len(s.jobs[id].invoked),
                                    status |-> s.jobs[id].status,
                                    held |-> id \in s.processing,
                                    settled |-> s.jobs[id].settles > 0,
                                    depth |-> s.depth]),
                     !.thrown = IF kind \in s.throwers
                                THEN ListenerMessage ELSE @],
           Listen)

\* UpdatePositions left out
UpdatePositionsSkipped(s) == s

\* updatePositions: every queued job gets its index + 1
UpdatePositions(s) ==
    [s EXCEPT !.jobs =
        [j \in DOMAIN s.jobs |->
            IF InQueue(s.queue, j)
            THEN [s.jobs[j] EXCEPT !.position = IndexOf(s.queue, j)]
            ELSE s.jobs[j]]]

\* job.resolve(value) / job.reject(error): the first call settles the
\* promise, a later call would leave it as it is
Settle(s, id, how, with) ==
    [s EXCEPT !.jobs[id].settles = @ + 1,
              !.jobs[id].channel = IF @ = "pending" THEN how ELSE @,
              !.jobs[id].settledWith =
                  IF s.jobs[id].channel = "pending" THEN with ELSE @]

(* ------------------------------------------------------------------ *)
(* processNext and executeJob                                         *)
(* ------------------------------------------------------------------ *)

RECURSIVE ProcessNext(_)
RECURSIVE ProcessLoop(_)
RECURSIVE RunAttempts(_, _, _)

\* CanDispatch with <= for <: one job too many is let in
CanDispatchInclusive(s) ==
    Len(s.queue) > 0 /\ Cardinality(s.processing) <= s.config.maxConcurrent

\* the while condition of processNext
CanDispatch(s) ==
    Len(s.queue) > 0 /\ Cardinality(s.processing) < s.config.maxConcurrent

\* Shift taking the last job, as queue.pop() would
ShiftFromTail(q) == [job |-> q[Len(q)], rest |-> SubSeq(q, 1, Len(q) - 1)]

\* this.queue.shift(): the job taken and the Wait List left
Shift(q) == [job |-> Head(q), rest |-> Tail(q)]

\* what the processor returns for attempt k of job id
ResultOf(id, k) == [job |-> id, attempt |-> k]

\* the classification of a failure by its message
IsRateLimited(msg) ==
    \/ Includes(msg, <<"4", "2", "9">>)
    \/ Includes(msg, <<"r", "a", "t", "e">>)
    \/ Includes(msg, <<"l", "i", "m", "i", "t">>)

\* RetryDelayFor without the attempt number: the same delay after every
\* failed attempt
RetryDelayForFlat(s, msg, k) ==
    IF IsRateLimited(msg)
    THEN s.config.retryDelay * 2
    ELSE s.config.retryDelay

\* the backoff after failed attempt k
RetryDelayFor(s, msg, k) ==
    IF IsRateLimited(msg)
    THEN s.config.retryDelay * k * 2
    ELSE s.config.retryDelay * k

\* FinishSuccess without its return: the for loop goes on to the next
\* attempt after the success
FinishSuccessNoReturn(s, id, result) ==
    LET Record(a)  == [a EXCEPT !.jobs[id].status = "completed",
                                !.jobs[id].result = result]
        Release(a) == [a EXCEPT !.processing = @ \ {id}]
        Notify(a)  == Emit(a, id, "jobCompleted",
                           [jobId |-> id, result |-> result])
        Resolve(a) == Settle(a, id, "resolved", result)
        Loop(a)    == RunAttempts(a, id, a.jobs[id].attempt + 1)
    IN  Do(Do(Do(Do(Do(Do(s, Record), Release), Notify), Resolve),
              ProcessNext), Loop)

\* FinishSuccess without processing.delete: the job keeps its slot
FinishSuccessKeepsSlot(s, id, result) ==
    LET Record(a)  == [a EXCEPT !.jobs[id].status = "completed",
                                !.jobs[id].result = result,
                                !.jobs[id].pc = "returned"]
        Notify(a)  == Emit(a, id, "jobCompleted",
                           [jobId |-> id, result |-> result])
        Resolve(a) == Settle(a, id, "resolved", result)
    IN  Do(Do(Do(Do(s, Record), Notify), Resolve), ProcessNext)

\* FinishSuccess resolving with job.result read before it is assigned
FinishSuccessResolvesUnset(s, id, result) ==
    LET Record(a)  == [a EXCEPT !.jobs[id].status = "completed",
                                !.jobs[id].result = result,
                                !.jobs[id].pc = "returned"]
        Release(a) == [a EXCEPT !.processing = @ \ {id}]
        Notify(a)  == Emit(a, id, "jobCompleted",
                           [jobId |-> id, result |-> result])
        Resolve(a) == Settle(a, id, "resolved", s.jobs[id].result)
    IN  Do(Do(Do(Do(Do(s, Record), Release), Notify), Resolve), ProcessNext)

\* FinishSuccess without its last line: processNext is not called again
FinishSuccessNoRetrigger(s, id, result) ==
    LET Record(a)  == [a EXCEPT !.jobs[id].status = "completed",
                                !.jobs[id].result = result,
                                !.jobs[id].pc = "returned"]
        Release(a) == [a EXCEPT !.processing = @ \ {id}]
        Notify(a)  == Emit(a, id, "jobCompleted",
                           [jobId |-> id, result |-> result])
        Resolve(a) == Settle(a, id, "resolved", result)
    IN  Do(Do(Do(Do(s, Record), Release), Notify), Resolve)

\* executeJob, try block after the await: the attempt's result arrived
FinishSuccess(s, id, result) ==
    LET Record(a)  == [a EXCEPT !.jobs[id].status = "completed",
                                !.jobs[id].result = result,
                                !.jobs[id].pc = "returned"]
        Release(a) == [a EXCEPT !.processing = @ \ {id}]
        Notify(a)  == Emit(a, id, "jobCompleted",
                           [jobId |-> id, result |-> result])
        Resolve(a) == Settle(a, id, "resolved", result)
    IN  Do(Do(Do(Do(Do(s, Record), Release), Notify), Resolve), ProcessNext)

\* FinishFailure without its last line: processNext is not called again
FinishFailureNoRetrigger(s, id) ==
    LET last == s.jobs[id].lastError
        msg  == IF last = NoError \/ last = <<>>
                THEN UnknownErrorMessage ELSE last
        Record(a)  == [a EXCEPT !.jobs[id].status = "failed",
                                !.jobs[id].error = msg,
                                !.jobs[id].pc = "returned"]
        Release(a) == [a EXCEPT !.processing = @ \ {id}]
        Notify(a)  == Emit(a, id, "jobFailed", [jobId |-> id, error |-> msg])
        Reject(a)  == Settle(a, id, "rejected",
                             IF last = NoError
                             THEN ProcessingFailedMessage ELSE last)
    IN  Do(Do(Do(Do(s, Record), Release), Notify), Reject)

\* executeJob after its loop: every attempt failed
FinishFailure(s, id) ==
    LET last == s.jobs[id].lastError
        msg  == IF last = NoError \/ last = <<>>
                THEN UnknownErrorMessage ELSE last
        Record(a)  == [a EXCEPT !.jobs[id].status = "failed",
                                !.jobs[id].error = msg,
                                !.jobs[id].pc = "returned"]
        Release(a) == [a EXCEPT !.processing = @ \ {id}]
        Notify(a)  == Emit(a, id, "jobFailed", [jobId |-> id, error |-> msg])
        Reject(a)  == Settle(a, id, "rejected",
                             IF last = NoError
                             THEN ProcessingFailedMessage ELSE last)
    IN  Do(Do(Do(Do(Do(s, Record), Release), Notify), Reject), ProcessNext)

\* RunAttempts with the loop test attempt <= retryAttempts + 1
RunAttemptsOneMore(s, id, k) ==
    IF k <= s.config.retryAttempts + 1
    THEN [s EXCEPT !.jobs[id].attempt = k,
                   !.jobs[id].invoked = Append(@, k),
                   !.jobs[id].ran = Append(@, s.app.singleton.processor),
                   !.jobs[id].pc = "awaiting"]
    ELSE FinishFailure(s, id)

\* executeJob's for loop at the test of attempt k: call the processor and
\* await the race, or leave the loop
RunAttempts(s, id, k) ==
    IF k <= s.config.retryAttempts
    THEN [s EXCEPT !.jobs[id].attempt = k,
                   !.jobs[id].invoked = Append(@, k),
                   !.jobs[id].ran = Append(@, s.app.singleton.processor),
                   !.jobs[id].pc = "awaiting"]
    ELSE FinishFailure(s, id)

\* executeJob from its start to its first await, as processNext calls it
ExecuteJob(s, id) == Catch(RunAttempts(s, id, 1), Dropped)

\* AttemptFailed without the sleep: the next attempt starts at once
AttemptFailedNoSleep(s, id, msg) ==
    LET k == s.jobs[id].attempt
        Keep(a)  == [a EXCEPT !.jobs[id].lastError = msg]
        Loop(a)  == RunAttempts(a, id, k + 1)
    IN  Do(Do(s, Keep), Loop)

\* AttemptFailed giving up the slot for the time of the sleep
AttemptFailedReleasesSlot(s, id, msg) ==
    LET k == s.jobs[id].attempt
        Keep(a)  == [a EXCEPT !.jobs[id].lastError = msg]
        Sleep(a) == [a EXCEPT !.jobs[id].sleeps =
                                  Append(@, [after |-> msg,
                                             delay |-> RetryDelayFor(a, msg, k)]),
                              !.jobs[id].pc = "sleeping",
                              !.processing = @ \ {id}]
        Loop(a)  == RunAttempts(a, id, k + 1)
    IN  IF k < s.config.retryAttempts
        THEN Do(Do(Do(s, Keep), Sleep), ProcessNext)
        ELSE Do(Do(s, Keep), Loop)

\* AttemptFailed not counting a timeout: the same attempt is made again
AttemptFailedTimeoutUncounted(s, id, msg) ==
    LET k == s.jobs[id].attempt
        Keep(a)  == [a EXCEPT !.jobs[id].lastError = msg]
        Sleep(a) == [a EXCEPT !.jobs[id].sleeps =
                                  Append(@, [after |-> msg,
                                             delay |-> RetryDelayFor(a, msg, k)]),
                              !.jobs[id].pc = "sleeping"]
        Loop(a)  == RunAttempts(a, id, k + 1)
        Again(a) == RunAttempts(a, id, k)
    IN  IF msg = TimeoutMessage
        THEN Do(Do(s, Keep), Again)
        ELSE IF k < s.config.retryAttempts
             THEN Do(Do(s, Keep), Sleep)
             ELSE Do(Do(s, Keep), Loop)

\* AttemptFailed sleeping after the last attempt too
AttemptFailedAlwaysSleeps(s, id, msg) ==
    LET k == s.jobs[id].attempt
        Keep(a)  == [a EXCEPT !.jobs[id].lastError = msg]
        Sleep(a) == [a EXCEPT !.jobs[id].sleeps =
                                  Append(@, [after |-> msg,
                                             delay |-> RetryDelayFor(a, msg, k)]),
                              !.jobs[id].pc = "sleeping"]
    IN  Do(Do(s, Keep), Sleep)

\* executeJob's catch block for the failure msg of the current attempt
AttemptFailed(s, id, msg) ==
    LET k == s.jobs[id].attempt
        Keep(a)  == [a EXCEPT !.jobs[id].lastError = msg]
        Sleep(a) == [a EXCEPT !.jobs[id].sleeps =
                                  Append(@, [after |-> msg,
                                             delay |-> RetryDelayFor(a, msg, k)]),
                              !.jobs[id].pc = "sleeping"]
        Loop(a)  == RunAttempts(a, id, k + 1)
    IN  IF k < s.config.retryAttempts
        THEN Do(Do(s, Keep), Sleep)
        ELSE Do(Do(s, Keep), Loop)

\* executeJob's try block after the await and the catch block around it:
\* what a jobCompleted listener throws is caught as the attempt's failure
AttemptSucceeded(s, id, result) ==
    LET Caught(a) == AttemptFailed(Dropped(a), id, a.thrown)
    IN  Catch(FinishSuccess(s, id, result), Caught)

\* ProcessLoop emitting "jobStarted" after it called executeJob
ProcessLoopRunsFirst(s) ==
    IF CanDispatch(s)
    THEN LET id == Shift(s.queue).job
             Take(a)   == [a EXCEPT !.queue = Shift(s.queue).rest]
             Start(a)  == [a EXCEPT !.jobs[id].status = "processing",
                                    !.processing = @ \cup {id},
                                    !.started = Append(@, id)]
             Notify(a) == Emit(a, id, "jobStarted",
                               [jobId |-> id,
                                processingCount |-> Cardinality(a.processing)])
             Run(a)    == ExecuteJob(a, id)
         IN  Do(Do(Do(Do(Do(Do(s, Take), UpdatePositions), Start), Run),
                   Notify), ProcessLoop)
    ELSE s

\* one iteration of processNext's while loop, and the iterations after it
ProcessLoop(s) ==
    IF CanDispatch(s)
    THEN LET id == Shift(s.queue).job
             Take(a)   == [a EXCEPT !.queue = Shift(s.queue).rest]
             Start(a)  == [a EXCEPT !.jobs[id].status = "processing",
                                    !.processing = @ \cup {id},
                                    !.started = Append(@, id)]
             Notify(a) == Emit(a, id, "jobStarted",
                               [jobId |-> id,
                                processingCount |-> Cardinality(a.processing)])
             Run(a)    == ExecuteJob(a, id)
         IN  Do(Do(Do(Do(Do(Do(s, Take), UpdatePositions), Start), Notify),
                   Run), ProcessLoop)
    ELSE s

\* processNext without its last line: isProcessing stays true
ProcessNextGuardLeft(s) ==
    LET Enter(a) == [a EXCEPT !.isProcessing = TRUE, !.depth = @ + 1]
    IN  IF s.isProcessing
        THEN s
        ELSE Do(Do(s, Enter), ProcessLoop)

\* processNext without its first line: a call made during a pass runs a
\* pass of its own
ProcessNextReentered(s) ==
    LET Enter(a) == [a EXCEPT !.isProcessing = TRUE, !.depth = @ + 1]
        Leave(a) == [a EXCEPT !.isProcessing = FALSE, !.depth = @ - 1]
    IN  Catch(Do(Do(Do(s, Enter), ProcessLoop), Leave), Dropped)

\* processNext
ProcessNext(s) ==
    LET Enter(a) == [a EXCEPT !.isProcessing = TRUE, !.depth = @ + 1]
        Leave(a) == [a EXCEPT !.isProcessing = FALSE, !.depth = @ - 1]
    IN  IF s.isProcessing
        THEN s
        ELSE Catch(Do(Do(Do(s, Enter), ProcessLoop), Leave), Dropped)

\* what getJobStatus returns for a job it does not find
Null == [null |-> TRUE]

\* GetJobStatus reading the status off the job object, wherever the job is
GetJobStatusOfRecord(s, id) ==
    IF id \in DOMAIN s.jobs
    THEN IF s.jobs[id].status = "queued"
         THEN [status |-> "queued", position |-> s.jobs[id].position]
         ELSE [status |-> s.jobs[id].status]
    ELSE Null

\* getJobStatus
GetJobStatus(s, id) ==
    IF id \in s.processing
    THEN [status |-> "processing"]
    ELSE IF InQueue(s.queue, id)
         THEN [status |-> "queued", position |-> s.jobs[id].position]
         ELSE Null

\* GetStatus counting the jobs of the Active Set into queueLength
GetStatusCountsAll(s) ==
    [queueLength |-> Len(s.queue) + Cardinality(s.processing),
     processingCount |-> Cardinality(s.processing),
     maxConcurrent |-> s.config.maxConcurrent]

\* getStatus
GetStatus(s) ==
    [queueLength |-> Len(s.queue),
     processingCount |-> Cardinality(s.processing),
     maxConcurrent |-> s.config.maxConcurrent]

\* Promise.race settled by the processor's promise: the timer stays set
ProcessorWins(s) == [s EXCEPT !.lateTimers = @ + 1]

\* Promise.race settled by the timer: the processor call stays in flight
TimerWins(s) == [s EXCEPT !.abandoned = @ + 1]

\* LoserSettles with the late outcome taken as the result of a job at work
LoserSettlesUsed(s) ==
    LET live == {id \in DOMAIN s.jobs : s.jobs[id].status = "processing"}
        id   == CHOOSE j \in live : TRUE
    IN  IF live = {}
        THEN [s EXCEPT !.abandoned = @ - 1]
        ELSE FinishSuccess([s EXCEPT !.abandoned = @ - 1], id, ResultOf(id, 0))

\* the processor call of a timed-out attempt settles: the race was decided
\* and its promise stays as it is
LoserSettles(s) == [s EXCEPT !.abandoned = @ - 1]

\* the timer of an attempt the processor decided fires: the same
LoserTimerFires(s) == [s EXCEPT !.lateTimers = @ - 1]

(* ------------------------------------------------------------------ *)
(* enqueue                                                            *)
(* ------------------------------------------------------------------ *)

\* IsFull counting the jobs in the Active Set too
IsFullCountingActive(s) ==
    Len(s.queue) + Cardinality(s.processing) >= s.config.maxQueueSize

\* IsFull with > for >=: one job too many is admitted
IsFullOffByOne(s) == Len(s.queue) > s.config.maxQueueSize

\* the queue size check of enqueue
IsFull(s) == Len(s.queue) >= s.config.maxQueueSize

\* the position enqueue gives the new job
NewPosition(s) == Len(s.queue) + 1

\* EnqueueCall taking the job number before the size check
EnqueueCallCountsFirst(s) ==
    LET id == s.jobCounter + 1
        Count(a)  == [a EXCEPT !.jobCounter = id]
        Push(a)   == [a EXCEPT !.jobs = Append(@, NewJob(NewPosition(a),
                                                         JobId(a.app.now, id))),
                               !.queue = Append(@, id)]
        Notify(a) == Emit(a, id, "jobAdded",
                          [jobId |-> id, position |-> a.jobs[id].position,
                           queueLength |-> Len(a.queue)])
    IN  IF IsFull(s)
        THEN [state |-> Do(s, Count),
              ret   |-> [op |-> "enqueue", outcome |-> "capacity",
                         error |-> QueueFullMessage]]
        ELSE [state |-> Do(Do(Do(Do(s, Count), Push), Notify), ProcessNext),
              ret   |-> [op |-> "enqueue", outcome |-> "admitted"]]

\* enqueue(data): the state after the call and what the caller gets
EnqueueCall(s) ==
    LET id == s.jobCounter + 1
        Count(a)  == [a EXCEPT !.jobCounter = id]
        Push(a)   == [a EXCEPT !.jobs = Append(@, NewJob(NewPosition(a),
                                                         JobId(a.app.now, id))),
                               !.queue = Append(@, id)]
        Notify(a) == Emit(a, id, "jobAdded",
                          [jobId |-> id, position |-> a.jobs[id].position,
                           queueLength |-> Len(a.queue)])
        \* what the promise executor throws rejects the promise
        Refuse(a) == Settle(Dropped(a), id, "rejected", a.thrown)
    IN  IF IsFull(s)
        THEN [state |-> s,
              ret   |-> [op |-> "enqueue", outcome |-> "capacity",
                         error |-> QueueFullMessage]]
        ELSE [state |-> Catch(Do(Do(Do(Do(s, Count), Push), Notify),
                                 ProcessNext), Refuse),
              ret   |-> [op |-> "enqueue", outcome |-> "admitted"]]

(* ------------------------------------------------------------------ *)
(* nanoBanana.ts: the enumerated options and the aspect ratio functions *)
(* ------------------------------------------------------------------ *)

RESOLUTIONS == {"1K", "2K", "4K"}

OUTPUT_FORMATS == {"jpeg", "png", "webp"}

\* the preset aspect ratios, as sequences of characters
ASPECT_RATIOS ==
    { <<"a", "u", "t", "o">>, <<"2", "1", ":", "9">>, <<"1", "6", ":", "9">>,
      <<"3", ":", "2">>, <<"4", ":", "3">>, <<"5", ":", "4">>,
      <<"1", ":", "1">>, <<"4", ":", "5">>, <<"3", ":", "4">>,
      <<"2", ":", "3">>, <<"9", ":", "1", "6">> }

\* the characters \d matches, with their values
DigitValue ==
    [c \in {"0", "1", "2", "3", "4", "5", "6", "7", "8", "9"} |->
        CASE c = "0" -> 0 [] c = "1" -> 1 [] c = "2" -> 2 [] c = "3" -> 3
          [] c = "4" -> 4 [] c = "5" -> 5 [] c = "6" -> 6 [] c = "7" -> 7
          [] c = "8" -> 8 [] c = "9" -> 9]

\* \d+ matches the whole of str
IsDigits(str) == Len(str) > 0 /\ \A i \in 1..Len(str) : str[i] \in DOMAIN DigitValue

\* the places of r where the ":" of /^\d+:\d+$/ can stand
Colons(r) ==
    {i \in 1..Len(r) : /\ r[i] = ":"
                       /\ IsDigits(SubSeq(r, 1, i - 1))
                       /\ IsDigits(SubSeq(r, i + 1, Len(r)))}

\* customRatioPattern.test(ratio)
CustomRatioPattern(r) == Colons(r) /= {}

\* parseInt(str, 10) of a string of digits
RECURSIVE ParseInt(_)
ParseInt(str) ==
    IF Len(str) = 0
    THEN 0
    ELSE ParseInt(SubSeq(str, 1, Len(str) - 1)) * 10 + DigitValue[str[Len(str)]]

\* IsValidAspectRatio with the pattern not anchored at the start
IsValidAspectRatioUnanchored(r) ==
    \/ r \in ASPECT_RATIOS
    \/ \E k \in 1..Len(r) : CustomRatioPattern(SubSeq(r, k, Len(r)))

\* isValidAspectRatio
IsValidAspectRatio(r) == r \in ASPECT_RATIOS \/ CustomRatioPattern(r)

\* parseAspectRatio: null, or the groups of the match as numbers
ParseAspectRatio(r) ==
    IF Colons(r) = {}
    THEN Null
    ELSE LET i == CHOOSE c \in Colons(r) : TRUE
         IN  [width  |-> ParseInt(SubSeq(r, 1, i - 1)),
              height |-> ParseInt(SubSeq(r, i + 1, Len(r)))]

(* ------------------------------------------------------------------ *)
(* security.ts: the processing limits of a session                     *)
(* ------------------------------------------------------------------ *)

\* SECURITY_CONFIG.processing
MaxPerHour == 30
MaxPerDay == 100

\* the lengths of the two windows, in hours
OneHour == 1
OneDay == 24

\* the sessions that send requests
Sessions == {"s"}

\* processingRecords.get(sessionId) of a session never seen
NoRecord == [hourly |-> Null, daily |-> Null]

\* the record canProcess and recordProcessing work on
RecordOf(s, sid) ==
    LET rec   == s.app.records[sid]
        fresh == [count |-> 0, startedAt |-> s.app.now]
        had   == IF rec = NoRecord
                 THEN [hourly |-> fresh, daily |-> fresh] ELSE rec
    IN  [hourly |-> IF s.app.now - had.hourly.startedAt > OneHour
                    THEN fresh ELSE had.hourly,
         daily  |-> IF s.app.now - had.daily.startedAt > OneDay
                    THEN fresh ELSE had.daily]

\* canProcess(sessionId, imageCount): the record is created or its windows
\* are reset, and the request is allowed if it fits both windows
CanProcess(s, sid, imageCount) ==
    LET rec == RecordOf(s, sid)
    IN  [state   |-> [s EXCEPT !.app.records[sid] = rec],
         allowed |-> /\ rec.hourly.count + imageCount <= MaxPerHour
                     /\ rec.daily.count + imageCount <= MaxPerDay]

\* recordProcessing(sessionId, imageCount)
RecordProcessing(s, sid, imageCount) ==
    LET rec == RecordOf(s, sid)
    IN  [s EXCEPT !.app.records[sid] =
            [hourly |-> [rec.hourly EXCEPT !.count = @ + imageCount],
             daily  |-> [rec.daily EXCEPT !.count = @ + imageCount]]]

\* SECURITY_CONFIG.login: the attempts allowed, and the lockout and the
\* attempt window in units of five minutes
MaxAttempts == 5
LockoutDuration == 3
AttemptWindow == 3

\* the addresses clients log in from
Ips == {"ip"}

\* canAttemptLogin(ip): what it leaves in loginAttempts and what it says
CanAttemptLogin(s, ip) ==
    LET attempt == s.app.loginAttempts[ip]
        Forget  == [s EXCEPT !.app.loginAttempts[ip] = Null]
    IN  IF attempt = Null
        THEN [state |-> s, allowed |-> TRUE]
        ELSE IF attempt.lockedUntil /= 0 /\ s.app.now < attempt.lockedUntil
        THEN [state |-> s, allowed |-> FALSE]
        ELSE IF attempt.lockedUntil /= 0 /\ s.app.now >= attempt.lockedUntil
        THEN [state |-> Forget, allowed |-> TRUE]
        ELSE IF s.app.now - attempt.firstAttemptAt > AttemptWindow
        THEN [state |-> Forget, allowed |-> TRUE]
        ELSE [state |-> s, allowed |-> MaxAttempts - attempt.count > 0]

\* recordLoginFailure(ip); lockedUntil is 0 where the code has null (both
\* are false in its tests); locks keeps the lockedUntil the call returned
\* when it locked the address
RecordLoginFailure(s, ip) ==
    LET attempt == s.app.loginAttempts[ip]
    IN  IF attempt = Null
        THEN [s EXCEPT !.app.loginAttempts[ip] =
                  [count |-> 1, firstAttemptAt |-> s.app.now, lockedUntil |-> 0]]
        ELSE IF s.app.now - attempt.firstAttemptAt > AttemptWindow
        THEN [s EXCEPT !.app.loginAttempts[ip] =
                  [count |-> 1, firstAttemptAt |-> s.app.now, lockedUntil |-> 0]]
        ELSE IF attempt.count + 1 >= MaxAttempts
        THEN [s EXCEPT !.app.loginAttempts[ip].count = @ + 1,
                       !.app.loginAttempts[ip].lockedUntil =
                           s.app.now + LockoutDuration,
                       !.app.locks[ip] = s.app.now + LockoutDuration]
        ELSE [s EXCEPT !.app.loginAttempts[ip].count = @ + 1]

\* recordLoginSuccess(ip)
RecordLoginSuccess(s, ip) ==
    [s EXCEPT !.app.loginAttempts[ip] = Null, !.app.locks[ip] = 0]

\* SECURITY_CONFIG.session.timeoutMs, in days
SessionTimeout == 1

\* the session tokens clients send
Tokens == {"t1", "t2"}

\* isSessionValid(sessionToken): an unknown token is recorded as a new
\* session, a session idle for longer than the timeout is deleted, and
\* any other has its last activity set to now
IsSessionValid(s, tok) ==
    LET activity == s.app.sessionActivities[tok]
    IN  IF activity = Null
        THEN [state |-> [s EXCEPT !.app.sessionActivities[tok] =
                             [createdAt |-> s.app.now,
                              lastActivityAt |-> s.app.now]],
              value |-> TRUE]
        ELSE IF s.app.now - activity.lastActivityAt > SessionTimeout
        THEN [state |-> [s EXCEPT !.app.sessionActivities[tok] = Null,
                                  !.app.ended = @ \cup {tok}],
              value |-> FALSE]
        ELSE [state |-> [s EXCEPT !.app.sessionActivities[tok].lastActivityAt =
                                      s.app.now],
              value |-> TRUE]

\* invalidateSession(sessionToken)
InvalidateSession(s, tok) ==
    [s EXCEPT !.app.sessionActivities[tok] = Null,
              !.app.ended = @ \cup {tok}]

\* the server before any request; ended holds the tokens that
\* isSessionValid reported timed out or that invalidateSession was given
NewApp ==
    [now |-> 0, records |-> [sid \in Sessions |-> NoRecord],
     imageJobs |-> <<>>, requests |-> <<>>,
     sessionActivities |-> [tok \in Tokens |-> Null], ended |-> {},
     loginAttempts |-> [ip \in Ips |-> Null], locks |-> [ip \in Ips |-> 0],
     singleton |-> [made |-> TRUE, processor |-> 0]]

\* the configuration getImageProcessingQueue passes to the constructor
\* (jobTimeout is the time after which TimeoutFires may happen)
SingletonConfig ==
    [maxConcurrent |-> 2, maxQueueSize |-> 50,
     retryAttempts |-> 3, retryDelay |-> 3000]

\* imageProcessingQueue while it is null
NoQueue == [made |-> FALSE, processor |-> 0]

\* the configuration of a queue that was not constructed
NoConfig == [none |-> TRUE]

\* getImageProcessingQueue making a new queue at every call
GetImageProcessingQueueAlwaysNew(s, processor) ==
    [s EXCEPT !.app.singleton = [made |-> TRUE, processor |-> processor],
              !.config = SingletonConfig]

\* getImageProcessingQueue(processor): the queue is constructed by the
\* first call, with that call's processor, and returned by every call
GetImageProcessingQueue(s, processor) ==
    IF ~s.app.singleton.made
    THEN [s EXCEPT !.app.singleton = [made |-> TRUE, processor |-> processor],
                   !.config = SingletonConfig]
    ELSE s

(* ------------------------------------------------------------------ *)
(* appRouter.image.process                                            *)
(* ------------------------------------------------------------------ *)

\* the input schema of image.process (an input is given with the length of
\* its imageUrls array; the defaults of omitted fields are valid values)
ValidInput(input) ==
    /\ input.imageUrls >= 1 /\ input.imageUrls <= 14
    /\ \/ input.aspectRatio \in ASPECT_RATIOS
       \/ CustomRatioPattern(input.aspectRatio)
    /\ input.resolution \in RESOLUTIONS
    /\ input.outputFormat \in OUTPUT_FORMATS
    /\ input.numImages >= 1 /\ input.numImages <= 4

\* a request the handler took on, at its first await
NewRequest(sid, input) ==
    [pc |-> "uploading", session |-> sid, imageUrls |-> input.imageUrls,
     row |-> 0, job |-> 0, error |-> NoError]

\* ImageProcessCall with the limit check made before the input is parsed
ImageProcessCallLimitFirst(s, sid, input) ==
    LET total == input.imageUrls * input.numImages
        check == CanProcess(s, sid, total)
        said(outcome) == [op |-> "image.process", outcome |-> outcome,
                          input |-> input]
    IN  IF ~check.allowed
        THEN [state |-> check.state, ret |-> said("limit")]
        ELSE IF ~ValidInput(input)
        THEN [state |-> check.state, ret |-> said("invalid")]
        ELSE [state |-> [check.state EXCEPT !.app.requests =
                             Append(@, NewRequest(sid, input))],
              ret   |-> said("accepted")]

\* a call of image.process up to the handler's first await: the input is
\* parsed before the handler runs; the handler checks the session's limits
\* and the aspect ratio and goes on to upload the images
ImageProcessCall(s, sid, input) ==
    LET total == input.imageUrls * input.numImages
        check == CanProcess(s, sid, total)
        said(outcome) == [op |-> "image.process", outcome |-> outcome,
                          input |-> input]
    IN  IF ~ValidInput(input)
        THEN [state |-> s, ret |-> said("invalid")]
        ELSE IF ~check.allowed
        THEN [state |-> check.state, ret |-> said("limit")]
        ELSE IF ~IsValidAspectRatio(input.aspectRatio)
        THEN [state |-> check.state, ret |-> said("ratio")]
        ELSE [state |-> [check.state EXCEPT !.app.requests =
                             Append(@, NewRequest(sid, input))],
              ret   |-> said("accepted")]

\* updateImageJobStatus(jobId, status, errorMessage): the message is
\* stored if one is given and it is not empty
UpdateImageJobStatus(s, row, status, msg) ==
    [s EXCEPT !.app.imageJobs[row].status = status,
              !.app.imageJobs[row].error =
                  IF msg = NoError \/ msg = <<>> THEN @ ELSE msg]

\* the handler of request r from the end of the uploads to its await of
\* queue.enqueue: the job row is created and marked processing, then the
\* job is enqueued; a capacity error marks the row failed and is rethrown
PersistAndEnqueue(s, r) ==
    LET row == Len(s.app.imageJobs) + 1
        Create(a) ==
            [a EXCEPT !.app.imageJobs =
                          Append(@, [status |-> "processing",
                                     error |-> NoError,
                                     imageCount |-> a.app.requests[r].imageUrls]),
                      !.app.requests[r].row = row]
        Submit(a) ==
            LET e == EnqueueCall(a)
            IN  IF e.ret.outcome = "capacity"
                THEN [UpdateImageJobStatus(e.state, row, "failed", e.ret.error)
                          EXCEPT !.app.requests[r].pc = "threw",
                                 !.app.requests[r].error = e.ret.error]
                ELSE [e.state EXCEPT
                          !.app.requests[r].pc = "waiting",
                          !.app.requests[r].job = e.state.jobCounter]
        Get(a) == GetImageProcessingQueue(a, r)
    IN  Do(Do(Do(s, Create), Get), Submit)

\* the handler of request r after its await of queue.enqueue, whose
\* promise settled; n is result.images.length
AfterEnqueue(s, r, n) ==
    LET req == s.app.requests[r]
        job == s.jobs[req.job]
        Stored(a) == UpdateImageJobStatus(a, req.row, "completed", NoError)
        Counted(a) == RecordProcessing(a, req.session, n)
        Return(a) == [a EXCEPT !.app.requests[r].pc = "returned"]
        Failed(a) == [UpdateImageJobStatus(a, req.row, "failed",
                                           job.settledWith)
                         EXCEPT !.app.requests[r].pc = "threw",
                                !.app.requests[r].error = job.settledWith]
    IN  IF job.channel = "resolved"
        THEN Do(Do(Do(s, Stored), Counted), Return)
        ELSE Do(s, Failed)

(* ------------------------------------------------------------------ *)
(* The state machine                                                  *)
(* ------------------------------------------------------------------ *)

Configs ==
    [maxConcurrent : ConcurrentChoices, maxQueueSize : QueueSizeChoices,
     retryAttempts : AttemptChoices, retryDelay : RetryDelayChoices]

\* the fields as their initialisers leave them
EmptyQueue ==
    /\ queue = <<>>
    /\ processing = {}
    /\ jobs = <<>>
    /\ jobCounter = 0
    /\ isProcessing = FALSE
    /\ started = <<>>
    /\ abandoned = 0
    /\ lateTimers = 0
    /\ ret = [op |-> "new"]

\* the fields as their initialisers leave them, in a server before any
\* request
Empty == EmptyQueue /\ app = NewApp

\* the fields after the constructor ran
Constructed == config \in Configs /\ Empty

\* a new queue whose listeners, if any, return normally
Init == Constructed /\ throwers = {} /\ enqueuers = {}

\* the state after a method returned s
Becomes(s) ==
    /\ queue' = s.queue
    /\ processing' = s.processing
    /\ jobs' = s.jobs
    /\ jobCounter' = s.jobCounter
    /\ isProcessing' = s.isProcessing
    /\ started' = s.started
    /\ abandoned' = s.abandoned
    /\ lateTimers' = s.lateTimers
    /\ app' = s.app
    /\ config' = s.config
    /\ UNCHANGED <<throwers, enqueuers>>

Ids == 1..Len(jobs)

\* a caller calls enqueue
EnqueueTurn == \E r \in {EnqueueCall(Q)} : Becomes(r.state) /\ ret' = r.ret

\* a caller calls enqueue, one of a bounded number of callers that get in
Enqueue ==
    /\ IsFull(Q) \/ jobCounter < MaxJobs
    /\ EnqueueTurn

\* the processor's promise of the current attempt fulfils and wins the race
ProcessorResolves(id) ==
    /\ jobs[id].pc = "awaiting"
    /\ \E s \in {AttemptSucceeded(ProcessorWins(Q), id,
                                   ResultOf(id, jobs[id].attempt))} :
           Becomes(s)
    /\ ret' = [op |-> "turn"]

\* the processor's promise of the current attempt rejects and wins the race
ProcessorRejects(id, msg) ==
    /\ jobs[id].pc = "awaiting"
    /\ \E s \in {AttemptFailed(ProcessorWins(Q), id, msg)} : Becomes(s)
    /\ ret' = [op |-> "turn"]

\* withTimeout's timer fires before the processor settled: the attempt
\* fails, the processor call stays in flight
TimeoutFires(id) ==
    /\ jobs[id].pc = "awaiting"
    /\ \E s \in {AttemptFailed(TimerWins(Q), id, TimeoutMessage)} : Becomes(s)
    /\ ret' = [op |-> "turn"]

\* the backoff sleep ends: the loop goes to its next attempt
SleepEnds(id) ==
    /\ jobs[id].pc = "sleeping"
    /\ \E s \in {RunAttempts(Q, id, jobs[id].attempt + 1)} : Becomes(s)
    /\ ret' = [op |-> "turn"]

\* a processor call whose attempt already timed out settles: the race is
\* over, nothing listens
StaleSettles ==
    /\ abandoned > 0
    /\ \E s \in {LoserSettles(Q)} : Becomes(s)
    /\ ret' = [op |-> "turn"]

\* the timer of an attempt the processor decided fires: it rejects a
\* promise that the race no longer listens to
StaleTimerFires ==
    /\ lateTimers > 0
    /\ \E s \in {LoserTimerFires(Q)} : Becomes(s)
    /\ ret' = [op |-> "turn"]

Next ==
    \/ Enqueue
    \/ \E id \in Ids : ProcessorResolves(id)
    \/ \E id \in Ids : \E msg \in ProcessorMessages : ProcessorRejects(id, msg)
    \/ \E id \in Ids : TimeoutFires(id)
    \/ \E id \in Ids : SleepEnds(id)
    \/ StaleSettles

Spec == Init /\ [][Next]_vars

\* a new queue with a listener that throws on one or more of the events
ListenerInit ==
    /\ Constructed
    /\ throwers \in (SUBSET EventKinds) \ {{}}
    /\ enqueuers = {}

ListenerSpec == ListenerInit /\ [][Next]_vars

\* One slot and a Wait List of one, up to three attempts, and processors
\* that fail in every way executeJob tells apart: an ordinary message, a
\* rate-limit message and an empty message.
RetryConfigs ==
    [maxConcurrent : {1}, maxQueueSize : {1},
     retryAttempts : {0, 1, 2, 3}, retryDelay : RetryDelayChoices]

RetryMessages == ProcessorMessages \cup { <<"4", "2", "9">>, <<>> }

RetryInit == config \in RetryConfigs /\ Empty /\ throwers = {} /\ enqueuers = {}

RetryEnqueue ==
    /\ IsFull(Q) \/ jobCounter < RetryJobs
    /\ EnqueueTurn

RetryNext ==
    \/ RetryEnqueue
    \/ \E id \in Ids : ProcessorResolves(id)
    \/ \E id \in Ids : \E msg \in RetryMessages : ProcessorRejects(id, msg)
    \/ \E id \in Ids : TimeoutFires(id)
    \/ \E id \in Ids : SleepEnds(id)
    \/ StaleSettles

RetrySpec == RetryInit /\ [][RetryNext]_vars

\* a caller calls getStatus
CallGetStatus ==
    /\ Becomes(Q)
    /\ ret' = [op |-> "getStatus", value |-> GetStatus(Q)]

\* a caller calls getJobStatus with the id of job number id
CallGetJobStatus(id) ==
    /\ Becomes(Q)
    /\ ret' = [op |-> "getJobStatus", id |-> id, value |-> GetJobStatus(Q, id)]

\* the ids a caller asks about: of the jobs there can be, and one never
\* given out
QueryIds == 1..(MaxJobs + 1)

QueryConfigs ==
    [maxConcurrent : ConcurrentChoices, maxQueueSize : QueueSizeChoices,
     retryAttempts : {1, 2}, retryDelay : RetryDelayChoices]

QueryInit == config \in QueryConfigs /\ Empty /\ throwers = {} /\ enqueuers = {}

\* the queue at work, with callers that read its status between the turns
QueryNext ==
    \/ Enqueue
    \/ \E id \in Ids : ProcessorResolves(id)
    \/ \E id \in Ids : \E msg \in ProcessorMessages : ProcessorRejects(id, msg)
    \/ \E id \in Ids : SleepEnds(id)
    \/ CallGetStatus
    \/ \E id \in QueryIds : CallGetJobStatus(id)

QuerySpec == QueryInit /\ [][QueryNext]_vars

\* an input image.process accepts
GoodInput ==
    [imageUrls |-> 1, aspectRatio |-> <<"a", "u", "t", "o">>,
     resolution |-> "1K", outputFormat |-> "png", numImages |-> 1]

\* the inputs clients send to image.process: the good one, changed in one
\* field, and the largest request the schema lets through
ImageInputs ==
    {[GoodInput EXCEPT !.imageUrls = n] : n \in {0, 1, 14, 15}}
    \cup {[GoodInput EXCEPT !.aspectRatio = r] :
              r \in { <<"1", "6", ":", "1", "0">>, <<"1", "6", "-", "9">> }}
    \cup {[GoodInput EXCEPT !.resolution = "8K"],
          [GoodInput EXCEPT !.outputFormat = "gif"],
          [GoodInput EXCEPT !.numImages = 4],
          [GoodInput EXCEPT !.imageUrls = 14, !.numImages = 4]}

\* result.images.length of a processor result
ImageCounts == {1, 4}

\* a client calls image.process
ImageProcess(sid, input) ==
    /\ ValidInput(input) => Len(app.requests) < ImageRequests
    /\ \E r \in {ImageProcessCall(Q, sid, input)} :
           Becomes(r.state) /\ ret' = r.ret

\* the uploads of request r are done
RequestPersists(r) ==
    /\ app.requests[r].pc = "uploading"
    /\ \E s \in {PersistAndEnqueue(Q, r)} : Becomes(s)
    /\ ret' = [op |-> "turn"]

\* the promise queue.enqueue returned to request r has settled
RequestResumes(r, n) ==
    /\ app.requests[r].pc = "waiting"
    /\ jobs[app.requests[r].job].channel /= "pending"
    /\ \E s \in {AfterEnqueue(Q, r, n)} : Becomes(s)
    /\ ret' = [op |-> "turn"]

ImageConfigs ==
    [maxConcurrent : {1}, maxQueueSize : {1},
     retryAttempts : {2}, retryDelay : RetryDelayChoices]

ImageInit == config \in ImageConfigs /\ Empty /\ throwers = {} /\ enqueuers = {}

\* the server: clients call image.process, whose handler uses the queue
ImageNext ==
    \/ \E sid \in Sessions : \E input \in ImageInputs : ImageProcess(sid, input)
    \/ \E r \in 1..Len(app.requests) : RequestPersists(r)
    \/ \E r \in 1..Len(app.requests) : \E n \in ImageCounts :
           RequestResumes(r, n)
    \/ \E id \in Ids : ProcessorResolves(id)
    \/ \E id \in Ids : \E msg \in ProcessorMessages : ProcessorRejects(id, msg)
    \/ \E id \in Ids : SleepEnds(id)

ImageSpec == ImageInit /\ [][ImageNext]_vars

\* the characters of the strings tried as aspect ratios
RatioAlphabet == {"0", "1", "9", ":", "a", "-"}

\* the strings tried: every string over the alphabet up to the length
\* bound, the presets, and the strings of the tests
RatioStrings ==
    UNION {[1..k -> RatioAlphabet] : k \in 0..MaxRatioLen}
    \cup ASPECT_RATIOS
    \cup { <<"1", "6", ":", "1", "0">>, <<"1", "6", "-", "9">>,
           <<"i", "n", "v", "a", "l", "i", "d">>, <<" ", "1", ":", "1">>,
           <<"1", ":", "1", "\n">>, <<"1", ".", "5", ":", "1">> }

\* a caller calls isValidAspectRatio
CallIsValidAspectRatio(r) ==
    /\ Becomes(Q)
    /\ ret' = [op |-> "isValidAspectRatio", arg |-> r,
               value |-> IsValidAspectRatio(r)]

\* a caller calls parseAspectRatio
CallParseAspectRatio(r) ==
    /\ Becomes(Q)
    /\ ret' = [op |-> "parseAspectRatio", arg |-> r,
               value |-> ParseAspectRatio(r)]

\* one call is looked at: the functions keep no state between calls
RatioNext ==
    \/ \E r \in RatioStrings : ret.op = "new" /\ CallIsValidAspectRatio(r)
    \/ \E r \in RatioStrings : ret.op = "new" /\ CallParseAspectRatio(r)

\* the two functions of nanoBanana.ts, called with any string
RatioSpec == ImageInit /\ [][RatioNext]_vars

RaceConfigs ==
    [maxConcurrent : ConcurrentChoices, maxQueueSize : {1},
     retryAttempts : {1, 2}, retryDelay : RetryDelayChoices]

RaceInit == config \in RaceConfigs /\ Empty /\ throwers = {} /\ enqueuers = {}

\* the queue with both losers of every race: the processor calls of
\* timed-out attempts and the timers of attempts the processor decided
RaceNext ==
    \/ RetryEnqueue
    \/ \E id \in Ids : ProcessorResolves(id)
    \/ \E id \in Ids : \E msg \in ProcessorMessages : ProcessorRejects(id, msg)
    \/ \E id \in Ids : TimeoutFires(id)
    \/ \E id \in Ids : SleepEnds(id)
    \/ StaleSettles
    \/ StaleTimerFires

RaceSpec == RaceInit /\ [][RaceNext]_vars

\* One job of three attempts under two base delays, with a processor that
\* fails with and without each marker of a rate limit: the markers alone,
\* a marker inside a longer message, a marker in another case, no marker.
BackoffConfigs ==
    [maxConcurrent : {1}, maxQueueSize : {1},
     retryAttempts : {3}, retryDelay : {1, 3}]

BackoffMessages ==
    ProcessorMessages \cup
        { <<"4", "2", "9">>, <<"r", "a", "t", "e">>,
          <<"l", "i", "m", "i", "t">>, <<"n", "o", " ", "l", "i", "m", "i", "t", "s">>,
          <<"R", "a", "t", "e">>, <<>> }

BackoffInit == config \in BackoffConfigs /\ Empty /\ throwers = {} /\ enqueuers = {}

BackoffEnqueue ==
    /\ jobCounter = 0
    /\ EnqueueTurn

BackoffNext ==
    \/ BackoffEnqueue
    \/ \E id \in Ids : ProcessorResolves(id)
    \/ \E id \in Ids : \E msg \in BackoffMessages : ProcessorRejects(id, msg)
    \/ \E id \in Ids : TimeoutFires(id)
    \/ \E id \in Ids : SleepEnds(id)
    \/ StaleSettles

BackoffSpec == BackoffInit /\ [][BackoffNext]_vars

\* The queue with a listener that answers an event by submitting a job: on
\* "jobStarted" its enqueue call, and the processNext call inside, runs in
\* the middle of a dispatch pass; so it does on "jobFailed" when
\* retryAttempts is 0 and executeJob runs to its end inside the pass.
ReentrantKinds == {"jobStarted", "jobCompleted", "jobFailed"}

ReentrantConfigs ==
    [maxConcurrent : ConcurrentChoices, maxQueueSize : QueueSizeChoices,
     retryAttempts : {0, 1}, retryDelay : RetryDelayChoices]

ReentrantInit ==
    /\ config \in ReentrantConfigs
    /\ Empty
    /\ throwers = {}
    /\ enqueuers \in {{k} : k \in ReentrantKinds}

ReentrantEnqueue ==
    /\ IsFull(Q) \/ jobCounter < ReentrantJobs
    /\ EnqueueTurn

ReentrantNext ==
    \/ ReentrantEnqueue
    \/ \E id \in Ids : ProcessorResolves(id)
    \/ \E id \in Ids : \E msg \in ProcessorMessages : ProcessorRejects(id, msg)

ReentrantSpec == ReentrantInit /\ [][ReentrantNext]_vars

\* the values Date.now() takes: the clock may stand still between two
\* calls of enqueue, move on, or be set back
ClockValues == {0, 1}

\* the clock of the server shows another value
ClockMoves ==
    /\ \E now \in ClockValues \ {app.now} :
           \E s \in {[Q EXCEPT !.app.now = now]} : Becomes(s)
    /\ ret' = [op |-> "clock"]

IdConfigs ==
    [maxConcurrent : {1}, maxQueueSize : QueueSizeChoices,
     retryAttempts : {1}, retryDelay : RetryDelayChoices]

IdInit == config \in IdConfigs /\ Empty /\ throwers = {} /\ enqueuers = {}

\* one queue, jobs enqueued at any reading of the clock
IdNext ==
    \/ Enqueue
    \/ ClockMoves
    \/ \E id \in Ids : ProcessorResolves(id)
    \/ \E id \in Ids : \E msg \in ProcessorMessages : ProcessorRejects(id, msg)

IdSpec == IdInit /\ [][IdNext]_vars

\* image.process requests sent to a server whose queue they can fill
CapacityRequests == 3

\* a client sends a request that passes the schema
GoodRequest(sid) ==
    /\ Len(app.requests) < CapacityRequests
    /\ \E r \in {ImageProcessCall(Q, sid, GoodInput)} :
           Becomes(r.state) /\ ret' = r.ret

CapacityConfigs ==
    [maxConcurrent : {1}, maxQueueSize : {1},
     retryAttempts : {1}, retryDelay : RetryDelayChoices]

CapacityInit ==
    config \in CapacityConfigs /\ Empty /\ throwers = {} /\ enqueuers = {}

\* the server under more requests at a time than its queue holds; the
\* processor fails with an ordinary message or with an empty one
CapacityNext ==
    \/ \E sid \in Sessions : GoodRequest(sid)
    \/ \E r \in 1..Len(app.requests) : RequestPersists(r)
    \/ \E r \in 1..Len(app.requests) : \E n \in ImageCounts :
           RequestResumes(r, n)
    \/ \E id \in Ids : ProcessorResolves(id)
    \/ \E id \in Ids : \E msg \in ProcessorMessages \cup {<<>>} :
           ProcessorRejects(id, msg)

CapacitySpec == CapacityInit /\ [][CapacityNext]_vars

\* image.process requests sent to a server from its start
SingletonRequests == 2

\* a client sends a request that passes the schema
FirstRequests(sid) ==
    /\ Len(app.requests) < SingletonRequests
    /\ \E r \in {ImageProcessCall(Q, sid, GoodInput)} :
           Becomes(r.state) /\ ret' = r.ret

\* the server when its module is loaded: imageProcessingQueue is null and
\* no queue was constructed
SingletonInit ==
    /\ config = NoConfig
    /\ EmptyQueue
    /\ app = [NewApp EXCEPT !.singleton = NoQueue]
    /\ throwers = {}
    /\ enqueuers = {}

\* the server from its start: every request passes a processor of its own
\* to getImageProcessingQueue
SingletonNext ==
    \/ \E sid \in Sessions : FirstRequests(sid)
    \/ \E r \in 1..Len(app.requests) : RequestPersists(r)
    \/ \E r \in 1..Len(app.requests) : RequestResumes(r, 1)
    \/ \E id \in Ids : ProcessorResolves(id)
    \/ \E id \in Ids : \E msg \in ProcessorMessages : ProcessorRejects(id, msg)
    \/ \E id \in Ids : SleepEnds(id)

SingletonSpec == SingletonInit /\ [][SingletonNext]_vars

\* the readings of the clock in a run of the session checks, in days
MaxDays == 3

\* a day passes
DayPasses ==
    /\ app.now < MaxDays
    /\ \E s \in {[Q EXCEPT !.app.now = @ + 1]} : Becomes(s)
    /\ ret' = [op |-> "clock"]

\* auth.checkAuth calls isSessionValid with the cookie it was sent
CallIsSessionValid(tok) ==
    /\ \E r \in {IsSessionValid(Q, tok)} :
           /\ Becomes(r.state)
           /\ ret' = [op |-> "isSessionValid", token |-> tok,
                      value |-> r.value]

\* a caller invalidates a session
CallInvalidateSession(tok) ==
    /\ \E s \in {InvalidateSession(Q, tok)} : Becomes(s)
    /\ ret' = [op |-> "invalidateSession", token |-> tok]

SessionInit ==
    config \in ImageConfigs /\ Empty /\ throwers = {} /\ enqueuers = {}

SessionNext ==
    \/ DayPasses
    \/ \E tok \in Tokens : CallIsSessionValid(tok)
    \/ \E tok \in Tokens : CallInvalidateSession(tok)

SessionSpec == SessionInit /\ [][SessionNext]_vars

\* the readings of the clock in a run of the login checks, in units of
\* five minutes
MaxTicks == 5

\* failures counted for one address in one record (caps count)
MaxFailures == 7

\* five minutes pass
TimePasses ==
    /\ app.now < MaxTicks
    /\ \E s \in {[Q EXCEPT !.app.now = @ + 1]} : Becomes(s)
    /\ ret' = [op |-> "clock"]

\* auth.loginWithPassword asks whether the address may try
CallCanAttemptLogin(ip) ==
    /\ \E r \in {CanAttemptLogin(Q, ip)} :
           /\ Becomes(r.state)
           /\ ret' = [op |-> "canAttemptLogin", ip |-> ip,
                      allowed |-> r.allowed]

\* auth.loginWithPassword was given a wrong password, by a client that was
\* allowed to try or that passed the reCAPTCHA
CallRecordLoginFailure(ip) ==
    /\ IF app.loginAttempts[ip] = Null
       THEN TRUE
       ELSE app.loginAttempts[ip].count < MaxFailures
    /\ \E s \in {RecordLoginFailure(Q, ip)} : Becomes(s)
    /\ ret' = [op |-> "recordLoginFailure", ip |-> ip]

\* auth.loginWithPassword was given the password
CallRecordLoginSuccess(ip) ==
    /\ \E s \in {RecordLoginSuccess(Q, ip)} : Becomes(s)
    /\ ret' = [op |-> "recordLoginSuccess", ip |-> ip]

LoginInit ==
    config \in ImageConfigs /\ Empty /\ throwers = {} /\ enqueuers = {}

LoginNext ==
    \/ TimePasses
    \/ \E ip \in Ips : CallCanAttemptLogin(ip)
    \/ \E ip \in Ips : CallRecordLoginFailure(ip)
    \/ \E ip \in Ips : CallRecordLoginSuccess(ip)

LoginSpec == LoginInit /\ [][LoginNext]_vars

\* image.process requests a session sends late in an hour of work
QuotaRequests == 2

\* the request: one image, two results
QuotaInput == [GoodInput EXCEPT !.numImages = 2]

\* the record of a session that had seven requests of four results each
\* served since the hour began
UsedRecord ==
    [hourly |-> [count |-> 28, startedAt |-> 0],
     daily  |-> [count |-> 28, startedAt |-> 0]]

\* a client of the session sends a request
QuotaRequest(sid) ==
    /\ Len(app.requests) < QuotaRequests
    /\ \E r \in {ImageProcessCall(Q, sid, QuotaInput)} :
           Becomes(r.state) /\ ret' = r.ret

\* the job of request r succeeded and the request goes on with a result
\* of as many images as it asked for
RequestDelivers(r) == RequestResumes(r, QuotaInput.numImages)

QuotaConfigs ==
    [maxConcurrent : ConcurrentChoices, maxQueueSize : QueueSizeChoices,
     retryAttempts : {1, 2}, retryDelay : RetryDelayChoices]

QuotaInit ==
    /\ config \in QuotaConfigs
    /\ EmptyQueue
    /\ app = [NewApp EXCEPT !.records = [sid \in Sessions |-> UsedRecord]]
    /\ throwers = {}
    /\ enqueuers = {}

\* one session close to its hourly limit sending requests together, to a
\* processor that returns what it is asked for, at once or after a retry
QuotaNext ==
    \/ \E sid \in Sessions : QuotaRequest(sid)
    \/ \E r \in 1..Len(app.requests) : RequestPersists(r)
    \/ \E r \in 1..Len(app.requests) : RequestDelivers(r)
    \/ \E id \in Ids : ProcessorResolves(id)
    \/ \E id \in Ids : \E msg \in ProcessorMessages : ProcessorRejects(id, msg)
    \/ \E id \in Ids : SleepEnds(id)

QuotaSpec == QuotaInit /\ [][QuotaNext]_vars

\* a timer set by setTimeout fires: the timer of an attempt, or of a sleep
TimerFires == \E id \in Ids : TimeoutFires(id) \/ SleepEnds(id)

\* Timers that are set do fire.  Processors need not settle and callers
\* need not call.  A behaviour holds finitely many timers, so fairness of
\* the timers together lets each of them fire.
FairSpec == Spec /\ WF_vars(TimerFires)

(* ------------------------------------------------------------------ *)
(* Properties                                                         *)
(* ------------------------------------------------------------------ *)

Terminal == {"completed", "failed"}

EventsOf(id, kind) ==
    {i \in 1..Len(jobs[id].events) : jobs[id].events[i].kind = kind}

\* C1: the Active Set never holds more than maxConcurrent jobs, between
\* turns and at every "jobStarted" emission inside a dispatch pass.
C1_ActiveSetBounded ==
    /\ Cardinality(processing) <= config.maxConcurrent
    /\ \A id \in Ids : \A i \in EventsOf(id, "jobStarted") :
           jobs[id].events[i].payload.processingCount <= config.maxConcurrent

\* the ceiling is reached with a job left waiting, after a retry
C1_Witness ==
    /\ config.maxConcurrent = 2
    /\ Cardinality(processing) = 2
    /\ Len(queue) > 0
    /\ \E id \in processing : jobs[id].attempt = 2

\* C2: a job's channel is settled at most once, by resolve when the job
\* is completed and by reject when it is failed, and by nothing while the
\* job is queued or processing.
C2_SettledOnceWhenTerminal ==
    \A id \in Ids :
        /\ jobs[id].settles <= 1
        /\ jobs[id].status \in {"queued", "processing"} =>
               jobs[id].settles = 0 /\ jobs[id].channel = "pending"
        /\ jobs[id].settles = 1 =>
               \/ jobs[id].status = "completed" /\ jobs[id].channel = "resolved"
               \/ jobs[id].status = "failed" /\ jobs[id].channel = "rejected"

\* one job was resolved and another rejected, and turns went on after
C2_Witness ==
    /\ \E id \in Ids : jobs[id].channel = "resolved" /\ jobs[id].attempt = 2
    /\ \E id \in Ids : jobs[id].channel = "rejected"
    /\ abandoned > 0
    /\ \E id \in Ids : jobs[id].status = "processing"

\* every job admitted so far has a terminal status and a settled channel
AllSettled ==
    \A id \in Ids :
        jobs[id].status \in Terminal /\ jobs[id].channel # "pending"

\* C3: every admitted job eventually has a terminal status and a settled
\* channel, whatever its processor does, provided the timers fire: time
\* and again all the jobs admitted so far have ended, so no job stays
\* queued or processing for ever.
C3_EveryJobTerminates == []<>AllSettled

\* a job that waited in the Wait List ended failed by timeouts alone,
\* its processor calls still unsettled
C3_Witness ==
    \E id \in Ids :
        /\ \E i \in EventsOf(id, "jobAdded") :
               jobs[id].events[i].payload.position = 2
        /\ jobs[id].status = "failed"
        /\ jobs[id].lastError = TimeoutMessage
        /\ abandoned = 2
        /\ jobs[id].channel = "rejected"

\* C4: a call of enqueue is rejected with the capacity error exactly when
\* the Wait List holds maxQueueSize jobs or more at the call; the Active
\* Set's size plays no part.
C4_RejectedIffWaitListFull ==
    [][ret'.op = "enqueue" =>
          (ret'.outcome = "capacity" <=> Len(queue) >= config.maxQueueSize)]_vars

\* ceiling 1, Wait List of 1: job 1 runs, job 2 waits, the third call
\* was rejected
C4_Witness ==
    /\ config.maxConcurrent = 1 /\ config.maxQueueSize = 1
    /\ processing = {1} /\ queue = <<2>>
    /\ ret.op = "enqueue" /\ ret.outcome = "capacity"

\* C5: a call of enqueue rejected with the capacity error changes nothing:
\* the Wait List, the Active Set, every job record (status, position,
\* events, processor calls), the job counter and the dispatch guard stay
\* as they were and no job record is added.
C5_RejectionChangesNothing ==
    [][(ret'.op = "enqueue" /\ ret'.outcome = "capacity") =>
          UNCHANGED <<config, queue, processing, jobs, jobCounter,
                      isProcessing, started, abandoned>>]_vars

\* a call was rejected with two jobs waiting behind a running one that
\* is asleep before a retry
C5_Witness ==
    /\ ret.op = "enqueue" /\ ret.outcome = "capacity"
    /\ ret.error = QueueFullMessage
    /\ Len(queue) = 2
    /\ \E id \in processing : jobs[id].pc = "sleeping"

\* the jobs that are queued or processing
Live == {id \in Ids : jobs[id].status \in {"queued", "processing"}}

\* C6: the Wait List never holds more than maxQueueSize jobs, and the jobs
\* queued or processing never number more than maxQueueSize + maxConcurrent.
C6_BacklogBounded ==
    /\ Len(queue) <= config.maxQueueSize
    /\ Cardinality(Live) <= config.maxQueueSize + config.maxConcurrent

\* the Wait List and the Active Set are both full
C6_Witness ==
    /\ Len(queue) = config.maxQueueSize
    /\ Cardinality(Live) = config.maxQueueSize + config.maxConcurrent
    /\ config.maxQueueSize = 2

\* C7: jobs are dispatched in the order they were admitted: the dispatch
\* order lists job numbers in increasing order, without gaps, and every job
\* still waiting was admitted after every job dispatched and stands in the
\* Wait List in admission order.
C7_DispatchInArrivalOrder ==
    /\ \A i \in 1..Len(started) : started[i] = i
    /\ \A i \in 1..Len(queue) : queue[i] = Len(started) + i

\* three jobs were dispatched in arrival order although the second ended
\* before the first
C7_Witness ==
    /\ started = <<1, 2, 3>>
    /\ jobs[1].status = "processing"
    /\ jobs[2].status \in Terminal
    /\ jobs[3].status = "processing"

\* C8: the i-th job of the Wait List has position i, between turns and
\* whenever a listener is called with an event.
C8_PositionsAreRanks ==
    /\ Ranked(Q)
    /\ \A id \in Ids : \A e \in 1..Len(jobs[id].events) :
           jobs[id].events[e].ranked

\* a job admitted at position 2 heads the Wait List at position 1 after
\* the job before it was dispatched
C8_Witness ==
    /\ Len(queue) >= 1
    /\ \E i \in EventsOf(queue[1], "jobAdded") :
           jobs[queue[1]].events[i].payload.position = 2
    /\ jobs[queue[1]].position = 1

\* the place of a status in a job's life
Rank(status) ==
    CASE status = "queued" -> 0
      [] status = "processing" -> 1
      [] status \in Terminal -> 2

\* every job is in exactly one of the Wait List (queued), the Active Set
\* (processing) and neither (completed or failed)
InOnePlace ==
    \A id \in Ids :
        /\ jobs[id].status = "queued" <=> InQueue(queue, id)
        /\ jobs[id].status = "processing" <=> id \in processing
        /\ ~(InQueue(queue, id) /\ id \in processing)
        /\ Cardinality({i \in 1..Len(queue) : queue[i] = id}) <= 1
        /\ Cardinality({i \in 1..Len(started) : started[i] = id}) <= 1

\* a job's status moves forward only from queued, where enqueue puts it;
\* a terminal status stays, and a job that ends within the turn that
\* dispatched it went through processing
MovesForward ==
    \A id \in 1..Len(jobs') :
        LET before == IF id \in Ids THEN jobs[id].status ELSE "queued"
            after  == jobs'[id].status
        IN  after # before =>
                /\ Rank(before) < Rank(after)
                /\ \E i \in 1..Len(started') : started'[i] = id
                /\ after \in Terminal =>
                       \E i \in 1..Len(jobs'[id].events) :
                           jobs'[id].events[i].kind = "jobStarted"

\* C9: every admitted job is in exactly one of the Wait List (queued), the
\* Active Set (processing) and neither (completed or failed); its status
\* only moves queued -> processing -> completed or failed, it never goes
\* back to the Wait List, is dispatched once at most, and a terminal
\* status never changes.
C9_OnePlaceAndForward == []InOnePlace /\ [][MovesForward]_vars

\* one job of each status at once, the failed one after a retry
C9_Witness ==
    /\ \E id \in Ids : jobs[id].status = "failed" /\ jobs[id].attempt = 2
    /\ \E id \in Ids : jobs[id].status = "processing"
    /\ \E id \in Ids : jobs[id].status = "queued"

\* C10: after every turn (a call of enqueue, a terminal transition or any
\* other), no job waits while the Active Set has a free slot; a job that
\* awaits its processor or sleeps before a retry holds a slot but does
\* not stop the dispatch of others.
C10_WorkConserving ==
    ~(Len(queue) > 0 /\ Cardinality(processing) < config.maxConcurrent)

\* a job sleeps before its retry while a job admitted after it was
\* dispatched into the slot a third job freed by failing
C10_Witness ==
    \E a, b, c \in Ids :
        /\ jobs[a].pc = "sleeping"
        /\ jobs[b].status = "failed"
        /\ c > a /\ c > b
        /\ jobs[c].status = "processing"
        /\ \E i \in EventsOf(c, "jobAdded") :
               jobs[c].events[i].payload.position = 1

\* processor calls started and not yet settled: the calls of the attempts
\* under way and the calls left behind by attempts that timed out
InFlight ==
    Cardinality({id \in Ids : jobs[id].pc = "awaiting"}) + abandoned

\* C11: the processor calls started and not yet settled never number more
\* than maxConcurrent, the calls of timed-out attempts included.
C11_InFlightBounded == InFlight <= config.maxConcurrent

\* C12: with a listener that throws, a job's status still matches how its
\* promise was settled, a terminal job holds no slot, the processor is not
\* called again once an attempt succeeded, and the dispatch loop goes on:
\* its guard is released and no job waits beside a free slot.
C12_ThrowingListenerHarmless ==
    /\ \A id \in Ids :
           /\ jobs[id].channel = "resolved" => jobs[id].status = "completed"
           /\ jobs[id].channel = "rejected" => jobs[id].status = "failed"
           /\ jobs[id].status \in Terminal => jobs[id].channel /= "pending"
           /\ jobs[id].status \in Terminal => id \notin processing
           /\ jobs[id].status = "completed" => jobs[id].pc = "returned"
    /\ ~isProcessing
    /\ Len(queue) > 0 => Cardinality(processing) = config.maxConcurrent

\* the attempt numbers 1..k in order
UpTo(k) == [i \in 1..k |-> i]

\* job id completed with the result of attempt k
SucceededOn(id, k) ==
    jobs[id].status = "completed" /\ jobs[id].result = ResultOf(id, k)

\* one "jobCompleted" event about job id, carrying result, and no "jobFailed"
CompletedOnce(id, result) ==
    /\ Cardinality(EventsOf(id, "jobCompleted")) = 1
    /\ \A i \in EventsOf(id, "jobCompleted") :
           jobs[id].events[i].payload = [jobId |-> id, result |-> result]
    /\ EventsOf(id, "jobFailed") = {}

\* C13: a job whose processor succeeded on attempt 1 had its processor
\* called exactly once and no backoff sleep, has exactly one "jobCompleted"
\* event and no "jobFailed" event, and its promise is fulfilled with that
\* attempt's result.
C13_FirstAttemptSuccess ==
    \A id \in Ids :
        SucceededOn(id, 1) =>
            /\ jobs[id].invoked = <<1>>
            /\ jobs[id].sleeps = <<>>
            /\ CompletedOnce(id, ResultOf(id, 1))
            /\ jobs[id].channel = "resolved"
            /\ jobs[id].settledWith = ResultOf(id, 1)

\* a job completed on its first attempt, in a queue that allows retries
C13_Witness ==
    \E id \in Ids : SucceededOn(id, 1) /\ config.retryAttempts = 2

\* C14: for every k from 1 to retryAttempts, a job whose processor failed
\* on attempts 1..k-1 and succeeded on attempt k is completed with attempt
\* k's result after exactly k processor calls (attempts 1..k in order) and
\* k-1 sleeps, one after each failure, with one "jobCompleted" event and no
\* "jobFailed" event; a completed job succeeded on one such k.
C14_SuccessOnAttemptK ==
    \A id \in Ids :
        /\ \A k \in 1..config.retryAttempts :
               SucceededOn(id, k) =>
                   /\ jobs[id].invoked = UpTo(k)
                   /\ Len(jobs[id].sleeps) = k - 1
                   /\ k > 1 => jobs[id].lastError = jobs[id].sleeps[k - 1].after
                   /\ CompletedOnce(id, ResultOf(id, k))
                   /\ jobs[id].channel = "resolved"
                   /\ jobs[id].settledWith = ResultOf(id, k)
        /\ jobs[id].status = "completed" =>
               \E k \in 1..config.retryAttempts : SucceededOn(id, k)

\* a job succeeded on its third attempt, the last one allowed, after an
\* attempt that timed out
C14_Witness ==
    \E id \in Ids :
        /\ SucceededOn(id, 3)
        /\ \E i \in 1..2 : jobs[id].sleeps[i].after = TimeoutMessage

\* C15: a job whose processor failed on every attempt (of one or more) was
\* attempted exactly retryAttempts times, is failed, has its promise
\* rejected with the last attempt's error, whose message is the job's
\* recorded error, and has exactly one "jobFailed" event and no
\* "jobCompleted" event.
C15_AllAttemptsFail ==
    \A id \in Ids :
        jobs[id].status = "failed" /\ config.retryAttempts >= 1 =>
            /\ jobs[id].invoked = UpTo(config.retryAttempts)
            /\ jobs[id].channel = "rejected"
            /\ jobs[id].settledWith = jobs[id].lastError
            /\ jobs[id].settledWith = jobs[id].error
            /\ Cardinality(EventsOf(id, "jobFailed")) = 1
            /\ EventsOf(id, "jobCompleted") = {}

\* the last failure job record j holds is msg
LastFailure(j, msg) == j.lastError /= NoError /\ j.lastError = msg

\* every failure of job id so far was a timeout
AllTimedOut(id) ==
    /\ LastFailure(jobs[id], TimeoutMessage)
    /\ \A i \in 1..Len(jobs[id].sleeps) :
           jobs[id].sleeps[i].after = TimeoutMessage

\* a job all of whose attempts timed out: failed after exactly
\* retryAttempts processor calls, with the timeout error, and retried in
\* between after the ordinary backoff
TimedOutJobsFailAfterAllAttempts ==
    \A id \in Ids :
        jobs[id].status = "failed" /\ AllTimedOut(id) =>
            /\ jobs[id].invoked = UpTo(config.retryAttempts)
            /\ Len(jobs[id].sleeps) = config.retryAttempts - 1
            /\ \A i \in 1..Len(jobs[id].sleeps) :
                   jobs[id].sleeps[i].delay = config.retryDelay * i
            /\ jobs[id].error = TimeoutMessage
            /\ jobs[id].channel = "rejected"
            /\ jobs[id].settledWith = TimeoutMessage

\* the turn in which the timer of an attempt fires: that attempt of an
\* awaiting job fails with the timeout error, no processor call is made in
\* the turn, and the job sleeps before its next attempt or, after its last
\* attempt, fails
TimeoutFailsOneAttempt ==
    abandoned' = abandoned + 1 =>
        \E id \in Ids :
            /\ jobs[id].pc = "awaiting"
            /\ LastFailure(jobs'[id], TimeoutMessage)
            /\ jobs'[id].attempt = jobs[id].attempt
            /\ jobs'[id].invoked = jobs[id].invoked
            /\ IF jobs[id].attempt < config.retryAttempts
               THEN /\ jobs'[id].pc = "sleeping"
                    /\ jobs'[id].status = "processing"
                    /\ jobs'[id].sleeps =
                           Append(jobs[id].sleeps,
                                  [after |-> TimeoutMessage,
                                   delay |-> config.retryDelay * jobs[id].attempt])
               ELSE /\ jobs'[id].status = "failed"
                    /\ jobs'[id].error = TimeoutMessage
                    /\ jobs'[id].sleeps = jobs[id].sleeps

\* C16: an attempt whose processor call is unsettled when the jobTimeout
\* timer fires fails with the timeout error and uses up exactly one
\* attempt; it is retried like any other failure, and a job whose every
\* attempt timed out is failed after exactly retryAttempts attempts.
C16_TimeoutIsAFailure ==
    []TimedOutJobsFailAfterAllAttempts /\ [][TimeoutFailsOneAttempt]_vars

\* a job failed after three attempts, each of which timed out
C16_Witness ==
    \E id \in Ids :
        /\ jobs[id].status = "failed"
        /\ AllTimedOut(id)
        /\ Len(jobs[id].invoked) = 3

(* ------------------------------------------------------------------ *)
(* A burst: n jobs submitted back to back, a processor that succeeds   *)
(* on the first attempt                                                *)
(* ------------------------------------------------------------------ *)

BurstConfigs ==
    [maxConcurrent : {1, 2}, maxQueueSize : {3, 4},
     retryAttempts : {1, 2}, retryDelay : RetryDelayChoices]

BurstInit == config \in BurstConfigs /\ Empty /\ throwers = {} /\ enqueuers = {}

\* one more call of the burst: before any job ended, and while the Wait
\* List has room
BurstEnqueue ==
    /\ jobCounter < BurstJobs
    /\ ~IsFull(Q)
    /\ \A id \in Ids : jobs[id].status \notin Terminal
    /\ EnqueueTurn

BurstNext ==
    \/ BurstEnqueue
    \/ \E id \in Ids : ProcessorResolves(id)

BurstSpec == BurstInit /\ [][BurstNext]_vars

\* the processor's promise fulfils for every attempt made
BurstFairSpec ==
    BurstSpec /\ \A id \in 1..BurstJobs :
                      WF_vars(id \in Ids /\ ProcessorResolves(id))

\* the least of two numbers
Min(a, b) == IF a < b THEN a ELSE b

\* the position payload of the "jobAdded" event of job id
AddedAt(id) == jobs[id].events[1].payload.position

\* during the burst of n jobs with ceiling c: jobs 1..c were started in
\* the turn of their enqueue call, in order, and jobs c+1..n wait in order,
\* admitted at positions 1..n-c
BurstShape ==
    LET c == config.maxConcurrent
        n == Len(jobs)
    IN  (\A id \in Ids : jobs[id].status \notin Terminal) =>
            /\ started = UpTo(Min(n, c))
            /\ processing = 1..Min(n, c)
            /\ queue = [i \in 1..(n - Min(n, c)) |-> c + i]
            /\ \A id \in Ids :
                   AddedAt(id) = IF id <= c THEN 1 ELSE id - c

\* at every dispatch the jobs left waiting are renumbered from 1, and the
\* jobs are dispatched in the order of their submission
Renumbered ==
    /\ Ranked(Q)
    /\ \A id \in Ids : \A i \in EventsOf(id, "jobStarted") :
           jobs[id].events[i].ranked
    /\ started = UpTo(Len(started))

\* every job of the burst completed on its first attempt with one
\* "jobCompleted" event, and getStatus reports nothing waiting or active
Drained ==
    /\ \A id \in Ids : SucceededOn(id, 1) /\ CompletedOnce(id, ResultOf(id, 1))
    /\ GetStatus(Q).queueLength = 0
    /\ GetStatus(Q).processingCount = 0

\* C17: of n > c jobs submitted back to back (n - c within maxQueueSize)
\* to a processor that succeeds on the first attempt, the first c start at
\* once and the others wait at positions 1..n-c, the Wait List is
\* renumbered from 1 at each dispatch, and in the end all n jobs are
\* completed, with n "jobCompleted" events, and the counts are back at 0.
C17_BurstDrains ==
    /\ [](BurstShape /\ Renumbered)
    /\ []<>Drained

\* the burst of scenario A is drained: five jobs, ceiling 2
C17_Witness ==
    /\ config.maxConcurrent = 2
    /\ Len(jobs) = 5
    /\ Drained

\* C18: getJobStatus(id) returns status "queued" with the job's current
\* 1-based rank while the job is in the Wait List, status "processing" and
\* no position while it is in the Active Set, and null for every other id:
\* a completed, failed, rejected or never issued one.  So it never returns
\* "completed" or "failed".
C18_JobStatusOfLiveJobsOnly ==
    ret.op = "getJobStatus" =>
        /\ InQueue(queue, ret.id) =>
               ret.value = [status |-> "queued",
                            position |-> IndexOf(queue, ret.id)]
        /\ ret.id \in processing => ret.value = [status |-> "processing"]
        /\ (~InQueue(queue, ret.id) /\ ret.id \notin processing) =>
               ret.value = Null
        /\ (ret.id \in Ids /\ jobs[ret.id].status \in Terminal) =>
               ret.value = Null
        /\ ret.id \notin Ids => ret.value = Null

\* getJobStatus returned position 2 for the second job waiting, while a
\* job that sleeps before its retry holds the only slot
C18_Witness ==
    /\ ret.op = "getJobStatus"
    /\ ret.value = [status |-> "queued", position |-> 2]
    /\ \E id \in processing : jobs[id].pc = "sleeping"

\* what getStatus returned is the Wait List's length, the Active Set's
\* size and the configured ceiling
StatusIsExact ==
    ret.op = "getStatus" =>
        ret.value = [queueLength |-> Len(queue),
                     processingCount |-> Cardinality(processing),
                     maxConcurrent |-> config.maxConcurrent]

\* a call of getStatus or getJobStatus leaves every field, every job
\* record and every job's events as they were
QueriesChangeNothing ==
    ret'.op \in {"getStatus", "getJobStatus"} =>
        UNCHANGED <<config, queue, processing, jobs, jobCounter, isProcessing,
                    started, abandoned, throwers, enqueuers, app>>

\* C19: getStatus returns exactly the current length of the Wait List, the
\* current size of the Active Set and the configured ceiling, and neither
\* getStatus nor getJobStatus changes any state or emits any event.
C19_QueriesArePure == []StatusIsExact /\ [][QueriesChangeNothing]_vars

\* getStatus returned two jobs waiting and one active
C19_Witness ==
    /\ ret.op = "getStatus"
    /\ ret.value.queueLength = 2
    /\ ret.value.processingCount = 1

\* the kinds of the events about job id, in the order of their emission
Kinds(id) == [i \in 1..Len(jobs[id].events) |-> jobs[id].events[i].kind]

\* C20: the events about an admitted job are one "jobAdded", whose
\* position is the length of the Wait List with the job in it, then one
\* "jobStarted", emitted before the first processor call, then one
\* "jobCompleted" or one "jobFailed" when the job ends, and no other:
\* retries emit nothing.
C20_EventsInLifecycleOrder ==
    \A id \in Ids :
        /\ Kinds(id) =
               CASE jobs[id].status = "queued" -> <<"jobAdded">>
                 [] jobs[id].status = "processing" ->
                        <<"jobAdded", "jobStarted">>
                 [] jobs[id].status = "completed" ->
                        <<"jobAdded", "jobStarted", "jobCompleted">>
                 [] jobs[id].status = "failed" ->
                        <<"jobAdded", "jobStarted", "jobFailed">>
        /\ jobs[id].events[1].payload.position =
               jobs[id].events[1].payload.queueLength
        /\ jobs[id].events[1].payload.jobId = id
        /\ Len(jobs[id].events) >= 2 =>
               /\ jobs[id].events[2].calls = 0
               /\ jobs[id].events[2].payload.jobId = id
        /\ Len(jobs[id].events) = 3 =>
               jobs[id].events[3].payload.jobId = id

\* a job failed after three attempts and another completed on its third
\* attempt, each with three events
C20_Witness ==
    \E a, b \in Ids :
        /\ jobs[a].status = "failed" /\ Len(jobs[a].invoked) = 3
        /\ SucceededOn(b, 3)
        /\ Len(jobs[a].events) = 3 /\ Len(jobs[b].events) = 3

\* the input is one the claim names: no image URL or more than 14, or a
\* resolution or an output format that is not one of the enumerated values
Malformed(input) ==
    \/ input.imageUrls = 0
    \/ input.imageUrls > 14
    \/ input.resolution \notin {"1K", "2K", "4K"}
    \/ input.outputFormat \notin {"jpeg", "png", "webp"}

\* a call of image.process with such an input is rejected as invalid and
\* changes nothing: no image job row, no request under way, no queue job,
\* no processing record
MalformedIsRejectedUntouched ==
    (ret'.op = "image.process" /\ Malformed(ret'.input)) =>
        /\ ret'.outcome = "invalid"
        /\ UNCHANGED <<config, queue, processing, jobs, jobCounter,
                       isProcessing, started, abandoned, throwers,
                       enqueuers, app>>

\* C21: image.process rejects a request with 0 or more than 14 image URLs,
\* or with a resolution or output format outside the enumerated values;
\* the rejection creates no job record, enqueues nothing and consumes no
\* session quota.
C21_MalformedRequestRejected == [][MalformedIsRejectedUntouched]_vars

\* a request with 15 image URLs was rejected by a server that has a
\* completed image job, counted against the session, and a job at work in
\* the queue
C21_Witness ==
    /\ ret.op = "image.process"
    /\ ret.outcome = "invalid"
    /\ ret.input.imageUrls = 15
    /\ \E i \in 1..Len(app.imageJobs) : app.imageJobs[i].status = "completed"
    /\ \E sid \in Sessions :
           app.records[sid] /= NoRecord /\ app.records[sid].hourly.count > 0
    /\ processing /= {}

\* 10 to the power n
RECURSIVE Pow10(_)
Pow10(n) == IF n = 0 THEN 1 ELSE 10 * Pow10(n - 1)

\* the sum of a function's values over a finite set
RECURSIVE SumOver(_, _)
SumOver(f, S) ==
    IF S = {} THEN 0
    ELSE LET x == CHOOSE y \in S : TRUE IN f[x] + SumOver(f, S \ {x})

\* the number a string of decimal digits denotes
Denotes(str) ==
    SumOver([i \in 1..Len(str) |-> DigitValue[str[i]] * Pow10(Len(str) - i)],
            1..Len(str))

\* r is one or more digits, a colon, one or more digits, and no more
HasRatioForm(r) ==
    \E i \in 2..(Len(r) - 1) :
        /\ r[i] = ":"
        /\ \A k \in (1..Len(r)) \ {i} :
               r[k] \in {"0", "1", "2", "3", "4", "5", "6", "7", "8", "9"}

\* the place of the colon in a string of that form
ColonOf(r) == CHOOSE i \in 1..Len(r) : r[i] = ":"

\* C22: isValidAspectRatio(r) is true exactly when r is a preset or
\* parseAspectRatio(r) is not null; parseAspectRatio returns the two
\* numbers of a digits:digits string and null for every other string,
\* "auto" included.
C22_RatioFunctionsAgree ==
    /\ ret.op = "isValidAspectRatio" =>
           (ret.value <=> (\/ ret.arg \in ASPECT_RATIOS
                           \/ ParseAspectRatio(ret.arg) /= Null))
    /\ ret.op = "parseAspectRatio" =>
           /\ HasRatioForm(ret.arg) =>
                  ret.value =
                      [width  |-> Denotes(SubSeq(ret.arg, 1,
                                                 ColonOf(ret.arg) - 1)),
                       height |-> Denotes(SubSeq(ret.arg, ColonOf(ret.arg) + 1,
                                                 Len(ret.arg)))]
           /\ ~HasRatioForm(ret.arg) => ret.value = Null
           /\ ret.arg = <<"a", "u", "t", "o">> => ret.value = Null

\* parseAspectRatio returned 16 and 10 for "16:10"
C22_Witness ==
    /\ ret.op = "parseAspectRatio"
    /\ ret.arg = <<"1", "6", ":", "1", "0">>
    /\ ret.value = [width |-> 16, height |-> 10]

\* a dispatched job that has not ended is in the Active Set, whether it
\* awaits its processor or sleeps before a retry, and the jobs at work
\* and asleep together never outnumber the slots
SlotHeldUntilTerminal ==
    /\ \A id \in Ids :
           (jobs[id].pc \in {"awaiting", "sleeping"}
            \/ jobs[id].status = "processing") => id \in processing
    /\ Cardinality({id \in Ids : jobs[id].pc \in {"awaiting", "sleeping"}})
           <= config.maxConcurrent

\* a job leaves the Active Set only in the turn that ends it, and a job
\* is dispatched only in a turn that begins with a free slot or ends a job
SlotLeftOnlyAtTerminal ==
    /\ \A id \in processing :
           id \notin processing' => jobs'[id].status \in Terminal
    /\ \A id \in processing' \ processing :
           \/ Cardinality(processing) < config.maxConcurrent
           \/ \E other \in processing : jobs'[other].status \in Terminal

\* C23: from its dispatch to its terminal transition a job stays in the
\* Active Set, through all its attempts, timeouts and backoff sleeps; a
\* sleep does not release the slot, so no queued job is dispatched into
\* the slot of a sleeping job.
C23_SlotHeldAcrossRetries ==
    []SlotHeldUntilTerminal /\ [][SlotLeftOnlyAtTerminal]_vars

\* every slot is held by a sleeping job while a job waits in the queue
C23_Witness ==
    /\ Len(queue) > 0
    /\ processing /= {}
    /\ \A id \in processing : jobs[id].pc = "sleeping"

\* a turn in which the loser of a decided race settles or fires changes
\* no job's status, result or error, settles no promise, frees no slot
\* and dispatches nothing
LoserChangesNothing ==
    (abandoned' < abandoned \/ lateTimers' < lateTimers) =>
        UNCHANGED <<config, queue, processing, jobs, jobCounter, isProcessing,
                    started, throwers, enqueuers, app>>

\* C24: once the race of an attempt is decided the loser is discarded: a
\* processor call that settles after its attempt timed out changes no
\* status, result or error, settles no promise and frees no slot, and a
\* timer that fires after its attempt's processor call settled has no
\* effect.
C24_RaceLoserDiscarded == [][LoserChangesNothing]_vars

\* a job's first attempt timed out and its second succeeded; the call of
\* the first attempt has settled since, and the timer of the second fired
C24_Witness ==
    \E id \in Ids :
        /\ SucceededOn(id, 2)
        /\ jobs[id].sleeps[1].after = TimeoutMessage
        /\ abandoned = 0
        /\ lateTimers = 0
        /\ \A other \in Ids : other = id

\* the markers of a rate limit
RateLimitMarkers ==
    { <<"4", "2", "9">>, <<"r", "a", "t", "e">>, <<"l", "i", "m", "i", "t">> }

\* msg contains one of the markers
HasMarker(msg) ==
    \E m \in RateLimitMarkers :
        \E i \in 1..Len(msg) :
            i + Len(m) - 1 <= Len(msg) /\ SubSeq(msg, i, i + Len(m) - 1) = m

\* C25: the sleep after failed attempt a, a < retryAttempts, lasts
\* retryDelay * a * 2 when that failure's message contains "429", "rate" or
\* "limit" and retryDelay * a otherwise, whatever the messages of the
\* job's other failures.
C25_BackoffByOwnMessage ==
    \A id \in Ids :
        /\ Len(jobs[id].sleeps) = 0 \/ Len(jobs[id].sleeps) < config.retryAttempts
        /\ \A a \in 1..Len(jobs[id].sleeps) :
               jobs[id].sleeps[a].delay =
                   IF HasMarker(jobs[id].sleeps[a].after)
                   THEN config.retryDelay * a * 2
                   ELSE config.retryDelay * a

\* a job slept three units after an ordinary first failure and twelve
\* after a rate-limited second one
C25_Witness ==
    \E id \in Ids :
        /\ config.retryDelay = 3
        /\ Len(jobs[id].sleeps) = 2
        /\ ~HasMarker(jobs[id].sleeps[1].after)
        /\ jobs[id].sleeps[1].delay = 3
        /\ HasMarker(jobs[id].sleeps[2].after)
        /\ jobs[id].sleeps[2].delay = 12

\* the processor calls made for job id in state js
CallsOf(js, id) == IF id \in DOMAIN js THEN Len(js[id].invoked) ELSE 0

\* the attempt numbers of every job are 1, 2, ... in order, at most
\* retryAttempts of them; the job awaits its last call or that call
\* failed, timed out or succeeded
AttemptsAreConsecutive ==
    \A id \in Ids :
        /\ jobs[id].invoked = UpTo(Len(jobs[id].invoked))
        /\ Len(jobs[id].invoked) <= config.retryAttempts
        /\ jobs[id].attempt = Len(jobs[id].invoked)
        /\ jobs[id].status = "completed" =>
               SucceededOn(id, Len(jobs[id].invoked))

\* a turn calls the processor at most once for a job: for its first
\* attempt, or when the sleep after a failed or timed-out attempt ends;
\* never for a completed job
AttemptOnlyAfterFailure ==
    \A id \in 1..Len(jobs') :
        CallsOf(jobs', id) /= CallsOf(jobs, id) =>
            /\ CallsOf(jobs', id) = CallsOf(jobs, id) + 1
            /\ jobs'[id].pc = "awaiting"
            /\ \/ CallsOf(jobs, id) = 0
               \/ /\ jobs[id].pc = "sleeping"
                  /\ jobs[id].status = "processing"
                  /\ Len(jobs[id].sleeps) = CallsOf(jobs, id)
                  /\ jobs[id].lastError = jobs[id].sleeps[CallsOf(jobs, id)].after

\* C26: the processor is invoked for a job with attempt numbers 1, 2, 3,
\* ... consecutively, without gaps or repeats, at most retryAttempts times;
\* a new attempt starts only after the previous one failed or timed out,
\* and none is made after an attempt succeeded.
C26_AttemptsConsecutive ==
    []AttemptsAreConsecutive /\ [][AttemptOnlyAfterFailure]_vars

\* a job is in its third attempt, the last one allowed, after one attempt
\* that failed and one that timed out, while another job was completed
\* by its first attempt and not called again
C26_Witness ==
    \E id \in Ids :
        /\ jobs[id].pc = "awaiting"
        /\ jobs[id].invoked = <<1, 2, 3>>
        /\ jobs[id].sleeps[1].after \in ProcessorMessages
        /\ jobs[id].sleeps[2].after = TimeoutMessage
        /\ \E done \in Ids : SucceededOn(done, 1)

\* the terminal events about job id
TerminalEvents(id) ==
    {i \in 1..Len(jobs[id].events) :
         jobs[id].events[i].kind \in {"jobCompleted", "jobFailed"}}

\* C27: on a job's terminal transition the status and outcome are
\* recorded, then the completion channel is settled, then the job is
\* removed from the Active Set, then the terminal event is emitted: when
\* the terminal event is emitted the status is terminal, the channel is
\* settled and the job holds no slot.
C27_ChannelSettledBeforeEvent ==
    \A id \in Ids :
        \A i \in TerminalEvents(id) :
            /\ jobs[id].events[i].status \in Terminal
            /\ jobs[id].events[i].settled
            /\ ~jobs[id].events[i].held

\* what the code does: at the terminal event the status is recorded and
\* the slot released, and the channel is not settled yet
TerminalEventBeforeSettle ==
    \A id \in Ids :
        \A i \in TerminalEvents(id) :
            /\ jobs[id].events[i].status \in Terminal
            /\ ~jobs[id].events[i].settled
            /\ ~jobs[id].events[i].held

\* C28: on terminal failure the message of the error that rejects the
\* completion channel is the job's recorded error, which is also the error
\* of the "jobFailed" event, in every case: with no failure captured
\* (retryAttempts <= 0) and with a last failure of empty message too.
C28_RejectionMatchesRecordedError ==
    \A id \in Ids :
        jobs[id].status = "failed" =>
            /\ jobs[id].channel = "rejected"
            /\ jobs[id].settledWith = jobs[id].error
            /\ \A i \in EventsOf(id, "jobFailed") :
                   jobs[id].events[i].payload.error = jobs[id].error

\* what the code does: the three agree but for the two cases in which the
\* recorded error is the message for an unknown error
RejectionMatchesUnlessGeneric ==
    \A id \in Ids :
        jobs[id].status = "failed" =>
            /\ jobs[id].channel = "rejected"
            /\ \A i \in EventsOf(id, "jobFailed") :
                   jobs[id].events[i].payload.error = jobs[id].error
            /\ jobs[id].settledWith =
                   IF jobs[id].lastError = NoError THEN ProcessingFailedMessage
                   ELSE jobs[id].lastError
            /\ jobs[id].error =
                   IF jobs[id].lastError \in {NoError, <<>>}
                   THEN UnknownErrorMessage ELSE jobs[id].lastError

\* no pass is running between two turns, no job waits while a slot is
\* free, and every "jobStarted" event was emitted by the one pass running
OnePassAtATime ==
    /\ isProcessing = FALSE
    /\ ~CanDispatch(Q)
    /\ \A id \in Ids :
           \A i \in EventsOf(id, "jobStarted") : jobs[id].events[i].depth = 1

\* the jobs a turn added by an enqueue call made while a pass was running
AddedDuringAPass ==
    {id \in 1..Len(jobs') : id > Len(jobs) /\ jobs'[id].events[1].depth > 0}

\* such a job was dispatched in the same turn, by the pass that was
\* running, unless that turn ended with every slot taken
DispatchedByTheRunningPass ==
    \A id \in AddedDuringAPass :
        \/ \E i \in 1..Len(started') : started'[i] = id
        \/ /\ Cardinality(processing') = config.maxConcurrent
           /\ InQueue(queue', id)

\* C29: at most one dispatch pass mutates the Wait List and the Active Set
\* at a time: processNext called while a pass is running (by a listener
\* that calls enqueue) returns without dispatching, the job it was called
\* for is dispatched by the running pass when a slot is free, and
\* isProcessing is false again when no pass is running.
C29_SinglePass == []OnePassAtATime /\ [][DispatchedByTheRunningPass]_vars

\* one enqueue call from outside and its one pass: the listener of
\* "jobStarted" submitted jobs 2 and 3 during the pass, which dispatched
\* job 2 into the second slot and left job 3 waiting
C29_Witness ==
    /\ enqueuers = {"jobStarted"}
    /\ ret = [op |-> "enqueue", outcome |-> "admitted"]
    /\ Len(jobs) = 3
    /\ jobs[1].events[1].depth = 0
    /\ jobs[2].events[1].depth = 1
    /\ jobs[3].events[1].depth = 1
    /\ started = <<1, 2>>
    /\ processing = {1, 2}
    /\ queue = <<3>>

\* a job sleeps only with an attempt left, and a failed job slept once
\* less than it was attempted
SleepsBetweenAttemptsOnly ==
    \A id \in Ids :
        /\ jobs[id].pc = "sleeping" => jobs[id].attempt < config.retryAttempts
        /\ jobs[id].status = "failed" /\ config.retryAttempts >= 1 =>
               /\ Len(jobs[id].invoked) = config.retryAttempts
               /\ Len(jobs[id].sleeps) = config.retryAttempts - 1

\* the turn in which the last permitted attempt of a job ends: the job is
\* completed, or it is failed, out of the Active Set and its promise
\* rejected in that same turn, with no sleep added
LastAttemptEndsTheJob ==
    \A id \in Ids :
        /\ jobs[id].pc = "awaiting"
        /\ jobs[id].attempt = config.retryAttempts
        /\ jobs'[id] /= jobs[id]
        => \/ jobs'[id].status = "completed"
           \/ /\ jobs'[id].status = "failed"
              /\ jobs'[id].pc = "returned"
              /\ id \notin processing'
              /\ jobs'[id].channel = "rejected"
              /\ jobs'[id].sleeps = jobs[id].sleeps

\* C30: no backoff sleep follows the last permitted attempt: a job whose
\* attempts all fail sleeps exactly retryAttempts - 1 times and, in the
\* turn its final attempt fails, becomes failed, leaves the Active Set and
\* has its promise rejected.
C30_NoSleepAfterLastAttempt ==
    []SleepsBetweenAttemptsOnly /\ [][LastAttemptEndsTheJob]_vars

\* a job of three attempts failed after two sleeps, and the job that
\* waited behind it holds the slot
C30_Witness ==
    \E id \in Ids :
        /\ config.retryAttempts = 3
        /\ jobs[id].status = "failed"
        /\ jobs[id].invoked = <<1, 2, 3>>
        /\ Len(jobs[id].sleeps) = 2
        /\ jobs[id].channel = "rejected"
        /\ \E next \in processing : next > id

\* no two jobs of the queue have the same id, and the counter in the
\* id of the n-th job admitted is n
IdsAreDistinct ==
    /\ \A i, j \in Ids : i /= j => jobs[i].id /= jobs[j].id
    /\ \A i \in Ids : jobs[i].id.counter = i
    /\ jobCounter = Len(jobs)

\* the counter never goes down and goes up by one with each admission
CounterOnlyGrows ==
    /\ jobCounter' >= jobCounter
    /\ jobCounter' - jobCounter = Len(jobs') - Len(jobs)
    /\ \A i \in Ids : jobs'[i].id = jobs[i].id

\* C31: within one QueueManager every admitted job gets an id different
\* from the id of every other job ever admitted, also when several are
\* enqueued in the same millisecond: the job counter grows with each
\* admission and is never reset or decremented.
C31_JobIdsUnique == []IdsAreDistinct /\ [][CounterOnlyGrows]_vars

\* three jobs were admitted, two of them in the same millisecond and the
\* third at an earlier reading of the clock, after another call was refused
C31_Witness ==
    /\ Len(jobs) = 3
    /\ jobs[1].id.time = jobs[2].id.time
    /\ jobs[3].id.time < jobs[2].id.time
    /\ jobs[1].status \in Terminal

\* C32: in image.process the call of queue.enqueue waits when the queue is
\* full: no request fails because the queue is full.
C32_FullQueueWaits ==
    \A r \in 1..Len(app.requests) :
        /\ app.requests[r].error /= QueueFullMessage
        /\ app.requests[r].row /= 0 =>
               app.imageJobs[app.requests[r].row].error /= QueueFullMessage

\* what the code does: a request that reaches enqueue while the Wait List
\* is at its maximum is not given a job: it throws the capacity error in
\* the turn of the call, with its row marked failed
FullQueueRefuses ==
    \A r \in 1..Len(app.requests) :
        app.requests[r].error = QueueFullMessage =>
            /\ app.requests[r].pc = "threw"
            /\ app.requests[r].job = 0
            /\ app.imageJobs[app.requests[r].row].status = "failed"
            /\ app.imageJobs[app.requests[r].row].error = QueueFullMessage

\* the images counted against session sid in its hourly window
HourlyCount(a, sid) ==
    IF a.records[sid] = NoRecord THEN 0 ELSE a.records[sid].hourly.count

\* the requests whose queue.enqueue call rejected
Rejected == {r \in 1..Len(app.requests) :
                 app.requests[r].pc = "threw" /\ app.requests[r].row /= 0}

\* what enqueue rejected the call of request r with
RejectionOf(r) ==
    IF app.requests[r].job = 0
    THEN QueueFullMessage
    ELSE jobs[app.requests[r].job].settledWith

\* the row of a request whose enqueue call rejected is failed with the
\* message of the error, and that error is the one the request throws
RejectedRequestsFail ==
    \A r \in Rejected :
        /\ app.imageJobs[app.requests[r].row].status = "failed"
        /\ app.imageJobs[app.requests[r].row].error = RejectionOf(r)
        /\ app.requests[r].error = RejectionOf(r)

\* the quota of a session grows only in a turn in which one of its
\* requests returns its result
QuotaOnlyOnSuccess ==
    \A sid \in Sessions :
        HourlyCount(app', sid) /= HourlyCount(app, sid) =>
            \E r \in 1..Len(app.requests) :
                /\ app.requests[r].session = sid
                /\ app.requests[r].pc = "waiting"
                /\ app'.requests[r].pc = "returned"
                /\ jobs[app.requests[r].job].channel = "resolved"

\* C33: in image.process, whenever queue.enqueue rejects (capacity error
\* or terminal failure) the job row, already marked processing, is updated
\* to failed with the error's message, the same error is rethrown, and
\* nothing is counted against the session's quota, which grows only after
\* a successful result.
C33_RejectionFailsTheRow ==
    []RejectedRequestsFail /\ [][QuotaOnlyOnSuccess]_vars

\* what the code does: as claimed, but an error of empty message leaves
\* the row without a message
RejectedRowKeepsNonEmptyMessage ==
    \A r \in Rejected :
        /\ app.imageJobs[app.requests[r].row].status = "failed"
        /\ app.imageJobs[app.requests[r].row].error =
               IF RejectionOf(r) = <<>> THEN NoError ELSE RejectionOf(r)
        /\ app.requests[r].error = RejectionOf(r)

RejectionFailsTheRowUnlessEmpty ==
    []RejectedRowKeepsNonEmptyMessage /\ [][QuotaOnlyOnSuccess]_vars

\* the request that called getImageProcessingQueue first (its row is the
\* first row: the row is created in the turn of the call)
FirstCaller == CHOOSE r \in 1..Len(app.requests) : app.requests[r].row = 1

\* once made, the queue has the configuration of the singleton and the
\* processor of the first call, and every processor call made for any job
\* was a call of that processor
OneQueueOneProcessor ==
    IF app.singleton.made
    THEN /\ config = SingletonConfig
         /\ config.maxConcurrent = 2
         /\ config.maxQueueSize = 50
         /\ config.retryAttempts = 3
         /\ app.singleton.processor = FirstCaller
         /\ \A id \in Ids :
                \A i \in 1..Len(jobs[id].ran) : jobs[id].ran[i] = FirstCaller
    ELSE jobs = <<>> /\ config = NoConfig

\* a queue once made is the queue ever after: the same processor, the
\* same configuration, the jobs it held
QueueIsNeverReplaced ==
    app.singleton.made =>
        /\ app'.singleton = app.singleton
        /\ config' = config
        /\ Len(jobs') >= Len(jobs)

\* C34: getImageProcessingQueue returns the same QueueManager at every
\* call; the processor passed by the first call is the one invoked for
\* every job ever enqueued, processors passed by later calls are never
\* invoked, and the configuration (ceiling 2, queue of 50, 3 attempts)
\* never changes after creation.
C34_OneQueueOneProcessor ==
    []OneQueueOneProcessor /\ [][QueueIsNeverReplaced]_vars

\* the job of a request that passed another processor was attempted
\* three times, each time by the processor of the first caller
C34_Witness ==
    \E r \in 1..Len(app.requests) :
        /\ r /= app.singleton.processor
        /\ app.requests[r].job /= 0
        /\ Len(jobs[app.requests[r].job].ran) = 3

\* a call of isSessionValid with a session that was ended says false
EndedSessionStaysInvalid ==
    \A tok \in app.ended :
        ret'.op = "isSessionValid" /\ ret'.token = tok => ~ret'.value

\* C35: a session token for which isSessionValid returned false because
\* of the inactivity timeout, or which was passed to invalidateSession, is
\* never reported valid by a later isSessionValid call.
C35_EndedSessionStaysInvalid == [][EndedSessionStaysInvalid]_vars

\* what the code does: a session that was ended is unknown, and the next
\* call of isSessionValid with its token records it as a new session and
\* says true
EndedSessionIsTakenForNew ==
    \A tok \in app.ended :
        /\ app.sessionActivities[tok] = Null
        /\ ret'.op = "isSessionValid"
        /\ ret'.token = tok
        => /\ ret'.value
           /\ app'.sessionActivities[tok].createdAt = app.now

EndedSessionsComeBack == [][EndedSessionIsTakenForNew]_vars

\* a call of canAttemptLogin made before the lockedUntil of a lock that no
\* successful login ended says the address may not try
LockedUntilTheRecordedTime ==
    \A ip \in Ips :
        /\ app.locks[ip] /= 0
        /\ app.now < app.locks[ip]
        /\ ret'.op = "canAttemptLogin"
        /\ ret'.ip = ip
        => ~ret'.allowed

\* C36: once recordLoginFailure has locked an IP, canAttemptLogin(ip)
\* returns allowed = false at every time before the recorded lockedUntil,
\* whatever calls of canAttemptLogin and recordLoginFailure happen in
\* between; the lock ends by reaching lockedUntil or by recordLoginSuccess.
C36_LockHoldsUntilRecordedTime == [][LockedUntilTheRecordedTime]_vars

\* what the code does: the lock holds while the record that carries it is
\* kept, and recordLoginFailure replaces that record once the attempt
\* window of its first failure is over
LockedWhileTheRecordIsKept ==
    \A ip \in Ips :
        /\ app.loginAttempts[ip] /= Null
        /\ app.loginAttempts[ip].lockedUntil /= 0
        /\ app.now < app.loginAttempts[ip].lockedUntil
        /\ ret'.op = "canAttemptLogin"
        /\ ret'.ip = ip
        => ~ret'.allowed

LockHoldsWhileRecorded == [][LockedWhileTheRecordIsKept]_vars

\* the images counted against session sid in its daily window
DailyCount(a, sid) ==
    IF a.records[sid] = NoRecord THEN 0 ELSE a.records[sid].daily.count

\* C37: for every session and any interleaving of concurrent image.process
\* requests, the count recorded for the current hourly window is at most
\* maxPerHour (30) and the count of the current daily window at most
\* maxPerDay (100).
C37_QuotaNeverExceeded ==
    \A sid \in Sessions :
        /\ HourlyCount(app, sid) <= MaxPerHour
        /\ DailyCount(app, sid) <= MaxPerDay

\* what the code does: canProcess lets a request in by the count it
\* reads, and every request let in adds its images when it is served
QuotaCountsServedRequests ==
    \A sid \in Sessions :
        HourlyCount(app, sid) =
            UsedRecord.hourly.count +
            QuotaInput.numImages *
                Cardinality({r \in 1..Len(app.requests) :
                                 app.requests[r].pc = "returned"})

====
